---- MODULE Spec2Model ----
(***************************************************************************)
(* robo-birder: the detection watcher, the notification decision engine    *)
(* (new-species / realtime tracks, cooldown store) and the scheduler loop  *)
(* that drives them.                                                       *)
(*                                                                         *)
(* Time is one integer clock in seconds.  Second 0 is 00:00:00 on January  *)
(* 1 of year 0 (local time); every year has 365 days.  time.time() and     *)
(* datetime.now() both read this clock.                                    *)
(***************************************************************************)
EXTENDS Integers, Sequences, FiniteSets, TLC

\* ------------------------------------------------------------------ bounds
\* Number of detection rows the upstream recognizer ever inserts.
MaxId == 2
\* Number of times the clock moves forward; afterwards time stands still.
MaxAdvance == 2

\* ------------------------------------------------------- program constants
\* notify.py: cutoff = time.time() - 86400
PruneAgeSeconds == 86400
\* scheduler.py: time.sleep(10)
SleepSeconds == 10
\* notify.py: realtime_config.get("cooldown_minutes", 5)
DefaultCooldownMinutes == 5

SecondsPerDay == 24 * 3600
\* Days before the first of each month, and in a (non-leap) year.
CumDays == <<0, 31, 59, 90, 120, 151, 181, 212, 243, 273, 304, 334>>
DaysPerYear == CumDays[12] + 31
SecondsPerYear == DaysPerYear * SecondsPerDay

\* The model starts ten seconds before midnight of December 31, year 0.
StartClock == SecondsPerYear - SleepSeconds
\* How long one pass of the loop (sleep included) may take.
SleepSteps == {SleepSeconds, DefaultCooldownMinutes * 60 - SleepSeconds}
WatchSleepSteps == {SleepSeconds}

None == "None"

\* ------------------------------------------------------------- sequences
RECURSIVE SetMax(_)
SetMax(S) ==
    IF S = {} THEN 0
    ELSE LET x == CHOOSE y \in S : TRUE
             m == SetMax(S \ {x})
         IN  IF x > m THEN x ELSE m

RECURSIVE SetMin(_)
SetMin(S) ==
    LET x == CHOOSE y \in S : TRUE
    IN  IF S = {x} THEN x
        ELSE LET m == SetMin(S \ {x}) IN IF x < m THEN x ELSE m

RECURSIVE Ascending(_)
Ascending(S) ==
    IF S = {} THEN << >>
    ELSE LET m == SetMin(S) IN <<m>> \o Ascending(S \ {m})

RECURSIVE Descending(_)
Descending(S) ==
    IF S = {} THEN << >>
    ELSE LET m == SetMax(S) IN <<m>> \o Descending(S \ {m})

Range(s) == {s[i] : i \in DOMAIN s}

\* --------------------------------------------------------------- calendar
DayNumber(t) == t \div SecondsPerDay
YearOf(t) == t \div SecondsPerYear
DayOfYear(t) == DayNumber(t) % DaysPerYear
MonthOf(t) == SetMax({m \in 1..12 : CumDays[m] <= DayOfYear(t)})
DayOf(t) == DayOfYear(t) - CumDays[MonthOf(t)] + 1

\* datetime(year, month, day): midnight of that date, in seconds.
DateTime(year, month, day) ==
    (year * DaysPerYear + CumDays[month] + day - 1) * SecondsPerDay

\* (month, day) >= (start_month, start_day), Python tuple comparison.
TupleGeq(m1, d1, m2, d2) == m1 > m2 \/ (m1 = m2 /\ d1 >= d2)
TupleLeq(m1, d1, m2, d2) == m1 < m2 \/ (m1 = m2 /\ d1 <= d2)

\* ------------------------------------------------------------ configuration
Species == {"Cardinalis cardinalis", "Turdus migratorius"}

\* The common name stored in the row next to the scientific name.
CommonName(sci) ==
    IF sci = "Cardinalis cardinalis" THEN "Northern Cardinal" ELSE "American Robin"

\* Row confidences, in hundredths.
Confidences == {40, 80}

SeasonNames == <<"spring", "summer", "fall", "winter">>

\* config.py: defaults = {"spring": (3, 20), "summer": (6, 21), ...}
DefaultSeasons ==
    [n \in Range(SeasonNames) |->
        CASE n = "spring" -> <<3, 20>>
          [] n = "summer" -> <<6, 21>>
          [] n = "fall"   -> <<9, 22>>
          [] n = "winter" -> <<12, 21>>]

CronEveryFive == "*/5 * * * *"
CronDailyEight == "0 8 * * *"
CronInvalid == "* * *"

\* A loaded configuration (the YAML file, with the code's defaults applied
\* where a key is absent).
BaseConfig ==
    [ db_type |-> "sqlite",
      ns_enabled |-> TRUE, ns_min_confidence |-> 50,
      first_ever |-> TRUE, first_of_year |-> TRUE, first_of_season |-> FALSE,
      rt_enabled |-> TRUE, rt_min_confidence |-> 70,
      species_whitelist |-> {}, species_blacklist |-> {},
      cooldown_minutes |-> DefaultCooldownMinutes,
      seasons |-> DefaultSeasons,
      summaries |-> << [name |-> "daily", enabled |-> TRUE, cron |-> CronEveryFive] >> ]

RealtimeOnlyConfig ==
    [BaseConfig EXCEPT !.ns_enabled = FALSE,
                       !.species_blacklist = {"American Robin"},
                       !.summaries = << [name |-> "daily", enabled |-> TRUE, cron |-> CronDailyEight],
                                        [name |-> "broken", enabled |-> TRUE, cron |-> CronInvalid] >>]

SeasonConfig ==
    [BaseConfig EXCEPT !.first_ever = FALSE, !.first_of_year = FALSE,
                       !.first_of_season = TRUE, !.cooldown_minutes = 0,
                       !.summaries = << >>]

\* The configuration files the scheduler is started with or reloaded from.
Configs == {BaseConfig, RealtimeOnlyConfig, SeasonConfig}

\* The narrower environment of the scheduler/watcher specification: one species,
\* confident rows, two configuration files, short passes.
WatchSpecies == {"Cardinalis cardinalis"}
WatchConfidences == {80}
WatchConfigs == {BaseConfig, RealtimeOnlyConfig}

\* The name _initialize_schedules files a summary without a name under.
Unnamed == "unnamed"

\* A summary without a name, and a disabled one.
UnnamedConfig ==
    [BaseConfig EXCEPT !.summaries = << [name |-> None, enabled |-> TRUE, cron |-> CronEveryFive],
                                        [name |-> "weekly", enabled |-> FALSE, cron |-> CronEveryFive] >>]

\* Two enabled summaries of one name with different cron expressions.
SharedNameConfig ==
    [BaseConfig EXCEPT !.summaries = << [name |-> "daily", enabled |-> TRUE, cron |-> CronDailyEight],
                                        [name |-> "daily", enabled |-> TRUE, cron |-> CronEveryFive] >>]

\* config["birdnet"]: the database section (None when the file has none).
birdnet(cfg) == cfg.db_type

\* Files a reload cannot be completed from: one without a birdnet section, and
\* an empty one, which yaml.safe_load reads as None (here: nothing in it).
NoBirdnetConfig == [RealtimeOnlyConfig EXCEPT !.db_type = None]
NoneConfig == [BaseConfig EXCEPT !.db_type = None, !.summaries = << >>]

\* The configuration files of the job schedule specification.
JobConfigs == {BaseConfig, RealtimeOnlyConfig, UnnamedConfig, SharedNameConfig}

\* The job schedule specification starts one tick before 08:00 of a day; its
\* ticks come after the sleep, after a slow pass that runs over 08:00 into
\* 08:01, and after a pass that blocks over two five-minute triggers.
JobStart == DateTime(1, 1, 3) + 8 * 3600 - SleepSeconds
JobSleepSteps == {SleepSeconds, 7 * SleepSeconds, 61 * SleepSeconds}

\* The inputs of single handle_detection_by_id calls: confidences below, at and
\* between the two thresholds, every combination of the new-species triggers on
\* both backends, the realtime lists and cooldowns, and season tables other than
\* the default one.
DecideConfidences == {40, BaseConfig.ns_min_confidence, BaseConfig.rt_min_confidence}

\* Seasons of the southern hemisphere: the year ends in summer.
SouthernSeasons ==
    [n \in Range(SeasonNames) |->
        CASE n = "spring" -> <<9, 22>>
          [] n = "summer" -> <<12, 21>>
          [] n = "fall"   -> <<3, 20>>
          [] n = "winter" -> <<6, 21>>]

\* Two seasons configured to start on the same day.
TiedSeasons == [DefaultSeasons EXCEPT !["summer"] = DefaultSeasons["spring"]]

NewSpeciesConfigs ==
    { [BaseConfig EXCEPT !.db_type = d, !.first_ever = e, !.first_of_year = y,
                         !.first_of_season = s, !.summaries = << >>] :
        d \in {"sqlite", "mysql"}, e \in BOOLEAN, y \in BOOLEAN, s \in BOOLEAN }

NameLists == {{}, {"Northern Cardinal"}, {"Turdus migratorius"}}

RealtimeConfigs ==
    { [BaseConfig EXCEPT !.ns_enabled = n, !.first_of_year = FALSE,
                         !.species_whitelist = w, !.species_blacklist = b,
                         !.cooldown_minutes = m, !.summaries = << >>] :
        n \in {FALSE}, w \in NameLists, b \in NameLists,
        m \in {-1, 0, DefaultCooldownMinutes} }
    \cup
    { [BaseConfig EXCEPT !.first_of_year = FALSE, !.cooldown_minutes = m,
                         !.summaries = << >>] :
        m \in {0, DefaultCooldownMinutes} }

SeasonTableConfigs ==
    { [SeasonConfig EXCEPT !.seasons = t] :
        t \in {DefaultSeasons, SouthernSeasons, TiedSeasons} }

\* The history scenarios are decided on January 3 of year 1; their rows began
\* before the winter of year 0, on its first day, later in year 0, on January 1
\* of year 1 and after it.
HistoryNow == DateTime(1, 1, 3)
HistoryTimes ==
    { DateTime(0, 12, 20), DateTime(0, 12, 21) + 12 * 3600, DateTime(0, 12, 25),
      DateTime(1, 1, 1) + 12 * 3600, DateTime(1, 1, 2) }

\* The days the season scenarios are decided on (year 1).
SeasonDates ==
    { DateTime(1, 1, 1), DateTime(1, 3, 19), DateTime(1, 3, 20), DateTime(1, 6, 21),
      DateTime(1, 9, 22), DateTime(1, 12, 20), DateTime(1, 12, 21) }

\* How old the entries of a cooldown file are: a pass of the loop, exactly the
\* pruning age.
StoreAges == {SleepSeconds, PruneAgeSeconds}

\* ------------------------------------------------------------------ config.py
RECURSIVE InsertByKey(_, _, _)
\* list.sort(key=...) is stable: x goes after every element whose key is <= its key.
InsertByKey(s, x, seasons) ==
    IF s = << >> THEN <<x>>
    ELSE IF TupleLeq(seasons[s[1]][1], seasons[s[1]][2], seasons[x][1], seasons[x][2])
         THEN <<s[1]>> \o InsertByKey(Tail(s), x, seasons)
         ELSE <<x>> \o s

RECURSIVE SortBoundaries(_, _)
SortBoundaries(names, seasons) ==
    IF names = << >> THEN << >>
    ELSE InsertByKey(SortBoundaries(SubSeq(names, 1, Len(names) - 1), seasons),
                     names[Len(names)], seasons)

\* Mutant: the boundaries are gone through as configured, without the sort.
get_current_season_unsorted(cfg, now) ==
    LET boundaries == SeasonNames
        hits == {i \in DOMAIN boundaries :
                    TupleGeq(MonthOf(now), DayOf(now),
                             cfg.seasons[boundaries[i]][1], cfg.seasons[boundaries[i]][2])}
    IN  IF hits = {} THEN boundaries[Len(boundaries)] ELSE boundaries[SetMax(hits)]

get_current_season(cfg, now) ==
    LET boundaries == SortBoundaries(SeasonNames, cfg.seasons)
        hits == {i \in DOMAIN boundaries :
                    TupleGeq(MonthOf(now), DayOf(now),
                             cfg.seasons[boundaries[i]][1], cfg.seasons[boundaries[i]][2])}
    IN  IF hits = {} THEN boundaries[Len(boundaries)] ELSE boundaries[SetMax(hits)]

get_season_start_date(cfg, season, year) ==
    DateTime(year, cfg.seasons[season][1], cfg.seasons[season][2])

\* ---------------------------------------------------------------- database.py
\* The notes table is a function from the ids of the rows present to rows.
Row(sci, conf, begin) ==
    [scientific_name |-> sci, common_name |-> CommonName(sci),
     confidence |-> conf, begin_time |-> begin]

\* Detection(id=row["id"], ...)
Detection(id, row) ==
    [id |-> id, scientific_name |-> row.scientific_name, common_name |-> row.common_name,
     confidence |-> row.confidence, begin_time |-> row.begin_time]

get_max_detection_id(notes) == SetMax(DOMAIN notes)

\* Mutant: the rows come back newest first (ORDER BY id DESC).
get_new_detection_ids_desc(notes, after_id) ==
    Descending({id \in DOMAIN notes : id > after_id})

\* Mutant: the comparison skips the row right after the watermark.
get_new_detection_ids_skip(notes, after_id) ==
    Ascending({id \in DOMAIN notes : id > after_id + 1})

\* SELECT id FROM notes WHERE id > ? ORDER BY id
get_new_detection_ids(notes, after_id) ==
    Ascending({id \in DOMAIN notes : id > after_id})

\* Mutant: the row being decided is left out of the count.
get_species_count_others(notes, scientific_name) ==
    Cardinality({id \in DOMAIN notes : notes[id].scientific_name = scientific_name}) - 1

get_species_count(notes, scientific_name) ==
    Cardinality({id \in DOMAIN notes : notes[id].scientific_name = scientific_name})

\* begin_time >= ? with the parameter since.isoformat() ("YYYY-MM-DDT00:00:00", since
\* is always a midnight here).  MySQL compares datetimes.  SQLite compares the stored
\* text "YYYY-MM-DD HH:MM:SS..." with the parameter text: equal dates are decided by
\* ' ' < 'T', so a row of the very day of since is not >= since.
BeginTimeGeq(db_type, begin_time, since) ==
    IF db_type = "mysql" THEN begin_time >= since
    ELSE DayNumber(begin_time) > DayNumber(since)

get_species_count_since(db_type, notes, scientific_name, since, before_id) ==
    Cardinality({id \in DOMAIN notes :
                    /\ notes[id].scientific_name = scientific_name
                    /\ BeginTimeGeq(db_type, notes[id].begin_time, since)
                    /\ id < before_id})

\* ------------------------------------------------------------------ notify.py
\* A JSON file holding an object is the function from its keys to its values;
\* the cooldown file is a function from species keys to timestamps.  A truncated
\* file reads as the empty map.
EmptyMap == [k \in {} |-> 0]

\* What else can be at the path: no file, a file open() refuses (OSError), text
\* that is no JSON (JSONDecodeError), bytes that are no UTF-8 (UnicodeDecodeError,
\* a ValueError), and JSON whose top level is an array.
NotAnObject(kind) == [json |-> kind]

\* The files that load as the default: "missing", "unreadable", "corrupt".
LoadsAsDefault(file) ==
    \E kind \in {"missing", "unreadable", "corrupt"} : file = NotAnObject(kind)

\* isinstance(value, dict) for what json.load returned.
IsJsonObject(value) == "json" \notin DOMAIN value

\* with open(path) as f: json.load(f) under except (json.JSONDecodeError, OSError):
\* the exception that leaves the function.
json_load_raises(file) == file = NotAnObject("not_utf8")

\* What the loaders return when they return: the parsed value, or the default
\* when the file is missing or the exception was caught.
json_load(file, default) ==
    IF LoadsAsDefault(file) THEN default ELSE file

load_cooldowns(file) == json_load(file, EmptyMap)

\* is_on_cooldown: load_cooldowns raised, or cooldowns.get on a list.
is_on_cooldown_raises(file, cooldown_minutes) ==
    /\ cooldown_minutes > 0
    /\ json_load_raises(file) \/ ~IsJsonObject(load_cooldowns(file))

\* set_cooldown: load_cooldowns raised, or cooldowns[species] = ... on a list.
set_cooldown_raises(file) ==
    json_load_raises(file) \/ ~IsJsonObject(load_cooldowns(file))

\* What the environment does to one handle_detection call: an exception before
\* any dispatch (a database error in the image or species queries), the webhook
\* result, and the fate of the cooldown file write.
IOOutcomes ==
    { [raises |-> TRUE,  send_ok |-> FALSE, save |-> "ok"],
      [raises |-> FALSE, send_ok |-> FALSE, save |-> "ok"],
      [raises |-> FALSE, send_ok |-> TRUE,  save |-> "ok"],
      [raises |-> FALSE, send_ok |-> TRUE,  save |-> "open_fails"],
      [raises |-> FALSE, send_ok |-> TRUE,  save |-> "write_fails"] }

\* open(COOLDOWN_FILE, "w") truncates the file before json.dump writes it; an
\* OSError is swallowed either way.
save_cooldowns(file, cooldowns, save) ==
    CASE save = "ok"          -> cooldowns
      [] save = "open_fails"  -> file
      [] save = "write_fails" -> EmptyMap

\* Mutant: the elapsed seconds are compared with the minutes.
is_on_cooldown_minutes(file, species, cooldown_minutes, now) ==
    IF cooldown_minutes <= 0 THEN FALSE
    ELSE LET cooldowns == load_cooldowns(file)
             last_notified == IF species \in DOMAIN cooldowns THEN cooldowns[species] ELSE 0
         IN  (now - last_notified) < cooldown_minutes

\* Mutant: a cooldown of 0 or less falls back to the default cooldown.
is_on_cooldown_default(file, species, cooldown_minutes, now) ==
    LET cooldowns == load_cooldowns(file)
        last_notified == IF species \in DOMAIN cooldowns THEN cooldowns[species] ELSE 0
        minutes == IF cooldown_minutes <= 0 THEN DefaultCooldownMinutes ELSE cooldown_minutes
    IN  (now - last_notified) < minutes * 60

is_on_cooldown(file, species, cooldown_minutes, now) ==
    IF cooldown_minutes <= 0 THEN FALSE
    ELSE LET cooldowns == load_cooldowns(file)
             last_notified == IF species \in DOMAIN cooldowns THEN cooldowns[species] ELSE 0
             cooldown_seconds == cooldown_minutes * 60
         IN  (now - last_notified) < cooldown_seconds

\* Mutant: an entry exactly as old as the cutoff is kept.
set_cooldown_keep(file, species, now, save) ==
    LET cooldowns == load_cooldowns(file)
        written == [k \in DOMAIN cooldowns \cup {species} |->
                        IF k = species THEN now ELSE cooldowns[k]]
        cutoff == now - PruneAgeSeconds
        kept == [k \in {x \in DOMAIN written : written[x] >= cutoff} |-> written[k]]
    IN  save_cooldowns(file, kept, save)

set_cooldown(file, species, now, save) ==
    LET cooldowns == load_cooldowns(file)
        written == [k \in DOMAIN cooldowns \cup {species} |->
                        IF k = species THEN now ELSE cooldowns[k]]
        cutoff == now - PruneAgeSeconds
        kept == [k \in {x \in DOMAIN written : written[x] > cutoff} |-> written[k]]
    IN  save_cooldowns(file, kept, save)

\* ------------------------------------------------------------------- state.py
\* The state file holds an object whose "last_sent" maps a summary name to the
\* ISO text of a time; a value is such a text, text that is no ISO time, or a
\* JSON number.
IsoText(t) == [iso |-> t]
NotIsoText == [text |-> "soon"]
JsonNumber == [number |-> 5]

NoState == [last_sent |-> EmptyMap]

load_state(file) == json_load(file, NoState)

save_state(file, state, save) == save_cooldowns(file, state, save)

\* record_summary_sent: load_state raised, state["last_sent"] on a list or on an
\* object without the key, or item assignment on a last_sent that is a list.
record_summary_sent_raises(file) ==
    LET state == load_state(file)
    IN  \/ json_load_raises(file)
        \/ ~IsJsonObject(state)
        \/ "last_sent" \notin DOMAIN state
        \/ ~IsJsonObject(state.last_sent)

record_summary_sent(file, name, timestamp, save) ==
    LET state == load_state(file)
        last_sent == [n \in DOMAIN state.last_sent \cup {name} |->
                         IF n = name THEN IsoText(timestamp) ELSE state.last_sent[n]]
    IN  save_state(file, [state EXCEPT !.last_sent = last_sent], save)

\* get_last_sent: load_state raised, state.get on a list, .get on a last_sent
\* that is a list, or datetime.fromisoformat on a value that is no str.
get_last_sent_raises(file, name) ==
    LET state == load_state(file)
    IN  \/ json_load_raises(file)
        \/ ~IsJsonObject(state)
        \/ /\ "last_sent" \in DOMAIN state
           /\ \/ ~IsJsonObject(state.last_sent)
              \/ /\ name \in DOMAIN state.last_sent
                 /\ state.last_sent[name] = JsonNumber

\* The time recorded for the name, or None: no entry, or text that is no ISO time.
get_last_sent(file, name) ==
    LET state == load_state(file)
        last_sent == IF "last_sent" \in DOMAIN state THEN state.last_sent ELSE EmptyMap
    IN  IF name \in DOMAIN last_sent /\ "iso" \in DOMAIN last_sent[name]
        THEN [found |-> TRUE, at |-> last_sent[name].iso]
        ELSE [found |-> FALSE, at |-> 0]

\* str.capitalize() on a season name.
Capitalize(season) ==
    CASE season = "spring" -> "Spring"
      [] season = "summer" -> "Summer"
      [] season = "fall"   -> "Fall"
      [] season = "winter" -> "Winter"

\* (False, None).  season is the value get_current_season returned to the call,
\* None when the call did not ask for it.
NoMatch == [is_new |-> FALSE, reason |-> None, season |-> None]

\* Mutant: first_of_year is looked at before first_ever.
check_new_species_year_first(detection, cfg, notes, now) ==
    IF ~cfg.ns_enabled THEN NoMatch
    ELSE IF detection.confidence < cfg.ns_min_confidence THEN NoMatch
    ELSE IF /\ cfg.first_of_year
            /\ get_species_count_since(cfg.db_type, notes, detection.scientific_name,
                                       DateTime(YearOf(now), 1, 1), detection.id) = 0
         THEN [is_new |-> TRUE, reason |-> "First sighting of " \o ToString(YearOf(now)) \o "!",
               season |-> None]
    ELSE IF /\ cfg.first_ever
            /\ get_species_count(notes, detection.scientific_name) = 1
         THEN [is_new |-> TRUE, reason |-> "First ever sighting!", season |-> None]
    ELSE IF cfg.first_of_season
         THEN LET current_season == get_current_season(cfg, now)
                  year == IF current_season = "winter" /\ MonthOf(now) < 3
                          THEN YearOf(now) - 1 ELSE YearOf(now)
                  season_start == get_season_start_date(cfg, current_season, year)
              IN  IF get_species_count_since(cfg.db_type, notes, detection.scientific_name,
                                             season_start, detection.id) = 0
                  THEN [is_new |-> TRUE,
                        reason |-> "First sighting of " \o Capitalize(current_season) \o "!",
                        season |-> current_season]
                  ELSE [NoMatch EXCEPT !.season = current_season]
    ELSE NoMatch

check_new_species(detection, cfg, notes, now) ==
    IF ~cfg.ns_enabled THEN NoMatch
    ELSE IF detection.confidence < cfg.ns_min_confidence THEN NoMatch
    ELSE IF /\ cfg.first_ever
            /\ get_species_count(notes, detection.scientific_name) = 1
         THEN [is_new |-> TRUE, reason |-> "First ever sighting!", season |-> None]
    ELSE IF /\ cfg.first_of_year
            /\ get_species_count_since(cfg.db_type, notes, detection.scientific_name,
                                       DateTime(YearOf(now), 1, 1), detection.id) = 0
         THEN [is_new |-> TRUE, reason |-> "First sighting of " \o ToString(YearOf(now)) \o "!",
               season |-> None]
    ELSE IF cfg.first_of_season
         THEN LET current_season == get_current_season(cfg, now)
                  year == IF current_season = "winter" /\ MonthOf(now) < 3
                          THEN YearOf(now) - 1 ELSE YearOf(now)
                  season_start == get_season_start_date(cfg, current_season, year)
              IN  IF get_species_count_since(cfg.db_type, notes, detection.scientific_name,
                                             season_start, detection.id) = 0
                  THEN [is_new |-> TRUE,
                        reason |-> "First sighting of " \o Capitalize(current_season) \o "!",
                        season |-> current_season]
                  ELSE [NoMatch EXCEPT !.season = current_season]
    ELSE NoMatch

\* Mutant: a confidence equal to the threshold is rejected too.
should_notify_realtime_strict(detection, cfg, file, now) ==
    IF ~cfg.rt_enabled THEN FALSE
    ELSE IF detection.confidence <= cfg.rt_min_confidence THEN FALSE
    ELSE IF /\ cfg.species_whitelist # {}
            /\ detection.common_name \notin cfg.species_whitelist
            /\ detection.scientific_name \notin cfg.species_whitelist
         THEN FALSE
    ELSE IF \/ detection.common_name \in cfg.species_blacklist
            \/ detection.scientific_name \in cfg.species_blacklist
         THEN FALSE
    ELSE IF is_on_cooldown(file, detection.scientific_name, cfg.cooldown_minutes, now)
         THEN FALSE
    ELSE TRUE

\* Mutant: the blacklist is looked at only when no whitelist is configured.
should_notify_realtime_whitelisted(detection, cfg, file, now) ==
    IF ~cfg.rt_enabled THEN FALSE
    ELSE IF detection.confidence < cfg.rt_min_confidence THEN FALSE
    ELSE IF /\ cfg.species_whitelist # {}
            /\ detection.common_name \notin cfg.species_whitelist
            /\ detection.scientific_name \notin cfg.species_whitelist
         THEN FALSE
    ELSE IF /\ cfg.species_whitelist = {}
            /\ \/ detection.common_name \in cfg.species_blacklist
               \/ detection.scientific_name \in cfg.species_blacklist
         THEN FALSE
    ELSE IF is_on_cooldown(file, detection.scientific_name, cfg.cooldown_minutes, now)
         THEN FALSE
    ELSE TRUE

should_notify_realtime(detection, cfg, file, now) ==
    IF ~cfg.rt_enabled THEN FALSE
    ELSE IF detection.confidence < cfg.rt_min_confidence THEN FALSE
    ELSE IF /\ cfg.species_whitelist # {}
            /\ detection.common_name \notin cfg.species_whitelist
            /\ detection.scientific_name \notin cfg.species_whitelist
         THEN FALSE
    ELSE IF \/ detection.common_name \in cfg.species_blacklist
            \/ detection.scientific_name \in cfg.species_blacklist
         THEN FALSE
    ELSE IF is_on_cooldown(file, detection.scientific_name, cfg.cooldown_minutes, now)
         THEN FALSE
    ELSE TRUE

\* Mutant: the realtime check is an if of its own, not the elif of the new-species one.
handle_detection_both(detection, cfg, notes, file, now, io) ==
    LET new == check_new_species(detection, cfg, notes, now)
        realtime == should_notify_realtime(detection, cfg, file, now)
        sent == (new.is_new \/ realtime) /\ io.send_ok
    IN  [raised |-> io.raises, is_new |-> new.is_new, reason |-> new.reason,
         track |-> IF new.is_new THEN "new_species" ELSE IF realtime THEN "realtime" ELSE "none",
         new_species_alerts |-> IF new.is_new /\ ~io.raises THEN 1 ELSE 0,
         realtime_alerts |-> IF realtime /\ ~io.raises THEN 1 ELSE 0,
         notification_sent |-> sent /\ ~io.raises,
         file |-> IF sent /\ ~io.raises
                  THEN set_cooldown(file, detection.scientific_name, now, io.save)
                  ELSE file]

\* Mutant: the cooldown is set as soon as an alert is decided, whatever the dispatch returns.
handle_detection_eager(detection, cfg, notes, file, now, io) ==
    LET new == check_new_species(detection, cfg, notes, now)
        realtime == ~new.is_new /\ should_notify_realtime(detection, cfg, file, now)
        decided == (new.is_new \/ realtime) /\ ~io.raises
    IN  [raised |-> io.raises, is_new |-> new.is_new /\ ~io.raises, reason |-> new.reason,
         track |-> IF ~decided THEN "none"
                   ELSE IF new.is_new THEN "new_species" ELSE "realtime",
         new_species_alerts |-> IF decided /\ new.is_new THEN 1 ELSE 0,
         realtime_alerts |-> IF decided /\ realtime THEN 1 ELSE 0,
         notification_sent |-> decided /\ io.send_ok,
         file |-> IF decided
                  THEN set_cooldown(file, detection.scientific_name, now, io.save)
                  ELSE file]

\* Mutant: the cooldown is written under the common name.
handle_detection_common(detection, cfg, notes, file, now, io) ==
    LET new == check_new_species(detection, cfg, notes, now)
        realtime == ~new.is_new /\ should_notify_realtime(detection, cfg, file, now)
        track == IF new.is_new THEN "new_species"
                 ELSE IF realtime THEN "realtime" ELSE "none"
        sent == track # "none" /\ io.send_ok
    IN  IF io.raises
        THEN [raised |-> TRUE, is_new |-> FALSE, reason |-> None, track |-> "none",
              new_species_alerts |-> 0, realtime_alerts |-> 0,
              notification_sent |-> FALSE, file |-> file]
        ELSE [raised |-> FALSE, is_new |-> new.is_new, reason |-> new.reason,
              track |-> track,
              new_species_alerts |-> IF new.is_new THEN 1 ELSE 0,
              realtime_alerts |-> IF realtime THEN 1 ELSE 0,
              notification_sent |-> sent,
              file |-> IF sent THEN set_cooldown(file, detection.common_name, now, io.save)
                       ELSE file]

\* One call of handle_detection: what it decided, what it dispatched and the
\* cooldown file it leaves.  track is the alert it tried to send.
\* Mutant: a new species is dispatched only when it is not on cooldown.
handle_detection_cooldown_first(detection, cfg, notes, file, now, io) ==
    LET new == check_new_species(detection, cfg, notes, now)
        cooling == is_on_cooldown(file, detection.scientific_name, cfg.cooldown_minutes, now)
        matched == new.is_new /\ ~cooling
        realtime == ~new.is_new /\ should_notify_realtime(detection, cfg, file, now)
        track == IF matched THEN "new_species"
                 ELSE IF realtime THEN "realtime" ELSE "none"
        sent == track # "none" /\ io.send_ok
    IN  IF io.raises
        THEN [raised |-> TRUE, is_new |-> FALSE, reason |-> None, track |-> "none",
              new_species_alerts |-> 0, realtime_alerts |-> 0,
              notification_sent |-> FALSE, file |-> file]
        ELSE [raised |-> FALSE, is_new |-> new.is_new, reason |-> new.reason,
              track |-> track,
              new_species_alerts |-> IF matched THEN 1 ELSE 0,
              realtime_alerts |-> IF realtime THEN 1 ELSE 0,
              notification_sent |-> sent,
              file |-> IF sent THEN set_cooldown(file, detection.scientific_name, now, io.save)
                       ELSE file]

handle_detection(detection, cfg, notes, file, now, io) ==
    LET new == check_new_species(detection, cfg, notes, now)
        realtime == ~new.is_new /\ should_notify_realtime(detection, cfg, file, now)
        track == IF new.is_new THEN "new_species"
                 ELSE IF realtime THEN "realtime" ELSE "none"
        sent == track # "none" /\ io.send_ok
    IN  \* db_config = config["birdnet"] raises KeyError without the section
        IF io.raises \/ birdnet(cfg) = None
        THEN [raised |-> TRUE, is_new |-> FALSE, reason |-> None, track |-> "none",
              new_species_alerts |-> 0, realtime_alerts |-> 0,
              notification_sent |-> FALSE, file |-> file]
        ELSE [raised |-> FALSE, is_new |-> new.is_new, reason |-> new.reason,
              track |-> track,
              new_species_alerts |-> IF new.is_new THEN 1 ELSE 0,
              realtime_alerts |-> IF realtime THEN 1 ELSE 0,
              notification_sent |-> sent,
              file |-> IF sent THEN set_cooldown(file, detection.scientific_name, now, io.save)
                       ELSE file]

\* --------------------------------------------------------------- scheduler.py
VARIABLES
    clock,              \* wall clock, seconds
    advances,           \* how many times the clock has moved
    notes,              \* the detections table: id -> row
    seq_id,             \* the last id the database assigned
    existing,           \* ids in the table when the watcher was constructed
    cooldowns,          \* the cooldown file
    config,             \* SummaryScheduler.config
    watcher_config,     \* DetectionWatcher.config (and its db_config)
    next_runs,          \* SummaryScheduler.next_runs: job name -> next trigger
    running,            \* SummaryScheduler.running
    reload_requested,   \* SummaryScheduler._reload_requested
    pc,                 \* where run() is
    last_id,            \* DetectionWatcher.last_id, the watermark
    new_ids,            \* check_new_detections: the batch returned by the id query
    idx,                \* check_new_detections: ids of the batch already gone through
    processed,          \* check_new_detections: its counter / return value
    after_id,           \* the after_id argument of this poll's id query
    failed_after,       \* the after_id of an id query that raised and awaits its retry
    handled,            \* id -> number of times it was passed to handle_detection
    not_found,          \* ids whose get_detection_by_id returned None
    last_call,          \* the handle_detection call of the last step, and what it did
    last_ok,            \* species -> time of its last successful dispatch (-1: none)
    last_jobs,          \* the job step of this tick: who was due, who ran, how it just ended
    computed,           \* the next runs computed in this tick so far: name -> when, from which cron
    signals,            \* signals delivered and not yet served: hup since the last reload began, term ever
    watcher_db_config,  \* DetectionWatcher.db_config: the birdnet section it was given
    state_file          \* the scheduler state file (scheduler_state.json)

envVars == <<clock, advances, notes, seq_id, existing>>
schedVars == <<config, watcher_config, next_runs, running, reload_requested>>
pollVars == <<last_id, new_ids, idx, processed, after_id, failed_after>>
histVars == <<handled, not_found, last_call, last_ok>>
jobVars == <<last_jobs, computed>>
auxVars == <<signals, watcher_db_config, state_file>>
vars == <<envVars, cooldowns, schedVars, pc, pollVars, histVars, jobVars, auxVars>>

\* Mutant: every expression is accepted (and read as the default one).
CronValidAny(cron_expr) == cron_expr = cron_expr

\* croniter(expr, now): raises ValueError for an expression without five fields.
CronValid(cron_expr) == cron_expr \in {CronEveryFive, CronDailyEight}

\* Mutant: a trigger that falls on now itself is returned.
CronNextInclusive(cron_expr, now) ==
    IF cron_expr = CronEveryFive
    THEN ((now + 299) \div 300) * 300
    ELSE LET today == DayNumber(now) * SecondsPerDay + 8 * 3600
         IN  IF now <= today THEN today ELSE today + SecondsPerDay

\* croniter(expr, now).get_next(datetime): the first trigger strictly after now.
CronNext(cron_expr, now) ==
    IF cron_expr = CronEveryFive
    THEN ((now \div 300) + 1) * 300
    ELSE LET today == DayNumber(now) * SecondsPerDay + 8 * 3600
         IN  IF now < today THEN today ELSE today + SecondsPerDay

\* summary.get("name", "unnamed"): the key under which a summary is scheduled.
ScheduledName(summary) == IF summary.name = None THEN Unnamed ELSE summary.name

\* The entry _initialize_schedules takes a scheduled name from: the last enabled
\* summary of that name with a valid cron (a later entry overwrites an earlier one).
ScheduledEntry(cfg, name) ==
    SetMax({i \in DOMAIN cfg.summaries :
              /\ cfg.summaries[i].enabled /\ CronValid(cfg.summaries[i].cron)
              /\ ScheduledName(cfg.summaries[i]) = name})

\* _initialize_schedules: every enabled summary with a valid cron, the later
\* entry of a name overwriting the earlier one.
initialize_schedules(cfg, now) ==
    LET ok(i) == cfg.summaries[i].enabled /\ CronValid(cfg.summaries[i].cron)
        names == {ScheduledName(cfg.summaries[i]) : i \in {j \in DOMAIN cfg.summaries : ok(j)}}
    IN  [n \in names |-> CronNext(cfg.summaries[ScheduledEntry(cfg, n)].cron, now)]

\* _get_summary_config: the first summary of that name, or None (index 0).
get_summary_config(cfg, name) ==
    LET hits == {i \in DOMAIN cfg.summaries : cfg.summaries[i].name = name}
    IN  IF hits = {} THEN 0 ELSE SetMin(hits)

\* Mutant: a job that was run is rescheduled from its previous trigger, so that
\* the triggers a long pass ran over are made up for one by one.
run_due_summaries_backfill(cfg, runs, now) ==
    LET due(n) == now >= runs[n]
        found(n) == get_summary_config(cfg, n) # 0
        cron(n) == cfg.summaries[get_summary_config(cfg, n)].cron
        dropped == {n \in DOMAIN runs : due(n) /\ found(n) /\ ~CronValid(cron(n))}
    IN  [n \in DOMAIN runs \ dropped |->
            IF due(n) /\ found(n) THEN CronNext(cron(n), runs[n]) ELSE runs[n]]

\* The for loop of run() over list(self.next_runs.items()): _run_summary for
\* every job with now >= next_run.  The job body's result or exception changes
\* nothing here.
run_due_summaries(cfg, runs, now) ==
    LET due(n) == now >= runs[n]
        found(n) == get_summary_config(cfg, n) # 0
        cron(n) == cfg.summaries[get_summary_config(cfg, n)].cron
        dropped == {n \in DOMAIN runs : due(n) /\ found(n) /\ ~CronValid(cron(n))}
    IN  [n \in DOMAIN runs \ dropped |->
            IF due(n) /\ found(n) THEN CronNext(cron(n), now) ELSE runs[n]]

\* The jobs of that loop for which _run_summary is called: now >= next_run.
due_summaries(runs, now) == {n \in DOMAIN runs : now >= runs[n]}

\* Those of them whose body, generate_and_send_summary, runs: _get_summary_config
\* found a summary of that name.
run_summaries(cfg, runs, now) ==
    {n \in due_summaries(runs, now) : get_summary_config(cfg, n) # 0}

\* How generate_and_send_summary can end: it returns True, returns False, raises.
BodyOutcomes == {"ok", "failed", "raised"}

\* No job step in this tick yet.
NoJobs == [at |-> -1, called |-> {}, ran |-> {}, outcome |-> EmptyMap, stopping |-> FALSE]

\* The record of the job step once the loop has gone on to the poll: how the
\* bodies ended is no longer at hand.
AfterJobs(jobs) == [jobs EXCEPT !.outcome = EmptyMap]

\* The computation of every entry of a schedule table built by
\* _initialize_schedules at now.
InitialComputed(cfg, now) ==
    [n \in DOMAIN initialize_schedules(cfg, now) |->
        [at |-> now, cron |-> cfg.summaries[ScheduledEntry(cfg, n)].cron]]

\* No handle_detection call in the last step.
NoCall ==
    [id |-> 0, scientific_name |-> None, common_name |-> None, confidence |-> 0,
     raised |-> FALSE, is_new |-> FALSE, reason |-> None, season |-> None,
     track |-> "none", new_species_alerts |-> 0, realtime_alerts |-> 0,
     notification_sent |-> FALSE, saved |-> FALSE, realtime_eligible |-> FALSE,
     on_cooldown |-> FALSE, cooldown_minutes |-> 0, since_ok |-> -1, since_stored |-> -1,
     file_before |-> EmptyMap, repeat |-> FALSE]

\* The record of one handle_detection call on detection that returned r: its
\* arguments, what it decided and dispatched, and what the checks it is made of
\* answer for the same arguments.
CallRecord(detection, cfg, io, r) ==
    LET sci == detection.scientific_name IN
    [id |-> detection.id, scientific_name |-> sci,
     common_name |-> detection.common_name, confidence |-> detection.confidence,
     raised |-> r.raised, is_new |-> r.is_new, reason |-> r.reason,
     \* the season get_current_season returned to check_new_species
     season |-> IF r.raised THEN None
                ELSE check_new_species(detection, cfg, notes, clock).season,
     track |-> r.track,
     new_species_alerts |-> r.new_species_alerts,
     realtime_alerts |-> r.realtime_alerts,
     notification_sent |-> r.notification_sent,
     saved |-> r.notification_sent /\ io.save = "ok",
     \* what the realtime check and the cooldown check answer for this detection
     realtime_eligible |->
         ~io.raises /\ should_notify_realtime(detection, cfg, cooldowns, clock),
     on_cooldown |-> is_on_cooldown(cooldowns, sci, cfg.cooldown_minutes, clock),
     cooldown_minutes |-> cfg.cooldown_minutes,
     since_ok |-> IF last_ok[sci] = -1 THEN -1 ELSE clock - last_ok[sci],
     since_stored |-> IF sci \in DOMAIN cooldowns THEN clock - cooldowns[sci] ELSE -1,
     file_before |-> cooldowns,
     \* the call before this one was made on the same detection and the same file
     repeat |-> /\ last_call.id = detection.id /\ ~last_call.raised /\ ~r.raised
                /\ last_call.file_before = cooldowns]

Live == pc \notin {"stopped", "crashed"}

\* No signal has been delivered.
NoSignals == [hup |-> FALSE, term |-> FALSE]


InitAt(configs, species, start) ==
    /\ clock = start
    /\ advances = 0
    /\ \E pre \in BOOLEAN, sci \in species :
          notes = [i \in (IF pre THEN {1} ELSE {}) |-> Row(sci, 80, start)]
    /\ seq_id = get_max_detection_id(notes)
    /\ existing = DOMAIN notes
    /\ cooldowns = EmptyMap
    /\ config \in configs
    /\ watcher_config = config
    /\ next_runs = initialize_schedules(config, clock)
    /\ running = FALSE
    /\ reload_requested = FALSE
    /\ pc = "start"
    \* _get_max_id: the maximum id, or 0 when the query raises
    /\ last_id \in {get_max_detection_id(notes), 0}
    /\ new_ids = << >>
    /\ idx = 0
    /\ processed = 0
    /\ after_id = 0
    /\ failed_after = -1
    /\ handled = [i \in 1..MaxId |-> 0]
    /\ not_found = {}
    /\ last_call = NoCall
    /\ last_ok = [s \in Species |-> -1]
    /\ last_jobs = NoJobs
    /\ computed = InitialComputed(config, clock)
    /\ signals = NoSignals
    /\ watcher_db_config = birdnet(config)
    /\ state_file = NotAnObject("missing")

InitFrom(configs, species) == InitAt(configs, species, StartClock)

\* ------------------------------------------------------------- environment
\* The upstream recognizer inserts a row; the database assigns the next id.
\* (A row inserted earlier in the same pass is seen by the same id query.)
InsertRow(species, confidences, at) ==
    /\ pc \in at
    /\ seq_id < MaxId
    /\ \E sci \in species, conf \in confidences :
          notes' = [i \in DOMAIN notes \cup {seq_id + 1} |->
                        IF i = seq_id + 1 THEN Row(sci, conf, clock) ELSE notes[i]]
    /\ seq_id' = seq_id + 1
    /\ last_call' = NoCall
    /\ UNCHANGED <<auxVars, jobVars, clock, advances, existing, cooldowns, schedVars, pc, pollVars,
                   handled, not_found, last_ok>>

\* A row is deleted from the source.
Delete ==
    /\ pc \in {"poll", "batch"}
    /\ \E id \in DOMAIN notes :
          notes' = [i \in DOMAIN notes \ {id} |-> notes[i]]
    /\ last_call' = NoCall
    /\ UNCHANGED <<auxVars, jobVars, clock, advances, seq_id, existing, cooldowns, schedVars, pc, pollVars,
                   handled, not_found, last_ok>>

\* Mutant: the signal handler reloads the configuration itself, where the loop is.
SighupReloadsAt(at) ==
    /\ pc \in at
    /\ \E c \in JobConfigs :
          /\ config' = c
          /\ next_runs' = initialize_schedules(c, clock)
          /\ watcher_config' = c
          /\ computed' = InitialComputed(c, clock)
    /\ last_call' = NoCall
    /\ UNCHANGED <<auxVars, envVars, cooldowns, running, reload_requested, pc, pollVars,
                   handled, not_found, last_ok, last_jobs>>

\* _handle_sighup: only sets the flag.
SighupAt(at) ==
    /\ pc \in at
    /\ ~signals.hup
    /\ reload_requested' = TRUE
    /\ signals' = [signals EXCEPT !.hup = TRUE]
    /\ last_call' = NoCall
    /\ UNCHANGED <<watcher_db_config, state_file, jobVars, envVars, cooldowns, config, watcher_config, next_runs, running, pc,
                   pollVars, handled, not_found, last_ok>>

Sighup == SighupAt({"poll", "sleep"})

\* Mutant: the stop signal ends the loop where it is.
SigtermInterruptsAt(at) ==
    /\ pc \in at
    /\ running
    /\ running' = FALSE
    /\ pc' = "stopped"
    /\ last_call' = NoCall
    /\ UNCHANGED <<auxVars, jobVars, envVars, cooldowns, config, watcher_config, next_runs,
                   reload_requested, pollVars, handled, not_found, last_ok>>

\* handle_sigterm / handle_sigint: scheduler.stop().
SigtermAt(at) ==
    /\ pc \in at
    /\ running \/ pc = "start"
    /\ running' = FALSE
    /\ signals' = [signals EXCEPT !.term = TRUE]
    /\ last_call' = NoCall
    /\ UNCHANGED <<watcher_db_config, state_file, jobVars, envVars, cooldowns, config, watcher_config, next_runs, reload_requested,
                   pc, pollVars, handled, not_found, last_ok>>

Sigterm == SigtermAt({"poll", "sleep"})

\* ------------------------------------------------------------ SummaryScheduler
\* run(): self.running = True, install the SIGHUP handler.
Run ==
    /\ pc = "start"
    /\ running' = TRUE
    /\ pc' = "top"
    /\ UNCHANGED <<auxVars, jobVars, envVars, cooldowns, config, watcher_config, next_runs, reload_requested,
                   pollVars, histVars>>

\* Mutant: the loop does not look at the flag and starts the next tick.
LoopIgnoresStop ==
    /\ pc = "top"
    /\ ~running
    /\ pc' = "jobs"
    /\ UNCHANGED <<auxVars, jobVars, envVars, cooldowns, schedVars, pollVars, histVars>>

\* while self.running: false
LoopExit ==
    /\ pc = "top"
    /\ ~running
    /\ pc' = "stopped"
    /\ UNCHANGED <<auxVars, jobVars, envVars, cooldowns, schedVars, pollVars, histVars>>

\* reload_config(): load_config raised, nothing is assigned.
ReloadFails ==
    /\ pc = "top" /\ running /\ reload_requested
    /\ reload_requested' = FALSE
    /\ signals' = [signals EXCEPT !.hup = FALSE]
    /\ pc' = "jobs"
    /\ UNCHANGED <<watcher_db_config, state_file, jobVars, envVars, cooldowns, config, watcher_config, next_runs, running,
                   pollVars, histVars>>

\* Mutant: the reload constructs a new watcher, which starts from the maximum id.
ReloadRestartsWatcher(configs) ==
    /\ pc = "top" /\ running /\ reload_requested
    /\ \E c \in configs :
          /\ config' = c
          /\ next_runs' = initialize_schedules(c, clock)
          /\ watcher_config' = c
          /\ watcher_db_config' = birdnet(c)
          /\ computed' = InitialComputed(c, clock)
    /\ last_id' = get_max_detection_id(notes)
    /\ reload_requested' = FALSE
    /\ signals' = [signals EXCEPT !.hup = FALSE]
    /\ pc' = "jobs"
    /\ UNCHANGED <<state_file, envVars, cooldowns, running, new_ids, idx, processed, after_id,
                   failed_after, histVars, last_jobs>>

\* Mutant: the reload leaves the watcher with the configuration it had.
ReloadKeepsWatcher(configs) ==
    /\ pc = "top" /\ running /\ reload_requested
    /\ \E c \in configs :
          /\ config' = c
          /\ next_runs' = initialize_schedules(c, clock)
          /\ computed' = InitialComputed(c, clock)
    /\ reload_requested' = FALSE
    /\ signals' = [signals EXCEPT !.hup = FALSE]
    /\ pc' = "jobs"
    /\ UNCHANGED <<watcher_config, watcher_db_config, state_file, envVars, cooldowns, running,
                   pollVars, histVars, last_jobs>>

\* reload_config(): the new configuration, the schedules and the watcher's references.
ReloadOk(configs) ==
    /\ pc = "top" /\ running /\ reload_requested
    /\ \E c \in configs :
          /\ config' = c
          /\ next_runs' = initialize_schedules(c, clock)
          /\ watcher_config' = c
          /\ watcher_db_config' = birdnet(c)
          /\ computed' = InitialComputed(c, clock)
    /\ reload_requested' = FALSE
    /\ signals' = [signals EXCEPT !.hup = FALSE]
    /\ pc' = "jobs"
    /\ UNCHANGED <<state_file, envVars, cooldowns, running, pollVars, histVars, last_jobs>>

\* reload_config(): an exception after self.config was assigned.  For an empty
\* file _initialize_schedules has emptied the table when self.config.get raises;
\* for a file without birdnet the table and watcher.config are the new ones when
\* self.config["birdnet"] raises.
ReloadFailsPartly ==
    /\ pc = "top" /\ running /\ reload_requested
    /\ \/ /\ config' = NoneConfig
          /\ next_runs' = EmptyMap
          /\ computed' = EmptyMap
          /\ UNCHANGED watcher_config
       \/ /\ config' = NoBirdnetConfig
          /\ next_runs' = initialize_schedules(NoBirdnetConfig, clock)
          /\ computed' = InitialComputed(NoBirdnetConfig, clock)
          /\ watcher_config' = NoBirdnetConfig
    /\ reload_requested' = FALSE
    /\ signals' = [signals EXCEPT !.hup = FALSE]
    /\ pc' = "jobs"
    /\ UNCHANGED <<watcher_db_config, state_file, envVars, cooldowns, running, pollVars,
                   histVars, last_jobs>>

\* The same reload seen in two steps, for the signals that arrive in between:
\* reload_config() has run (to its end, or to the exception load_config raised),
\* the flag is still set.
ReloadBegin(configs) ==
    /\ pc = "top" /\ running /\ reload_requested
    /\ \/ \E c \in configs :
             /\ config' = c
             /\ next_runs' = initialize_schedules(c, clock)
             /\ watcher_config' = c
             /\ watcher_db_config' = birdnet(c)
             /\ computed' = InitialComputed(c, clock)
       \/ UNCHANGED <<config, next_runs, watcher_config, watcher_db_config, computed>>
    /\ signals' = [signals EXCEPT !.hup = FALSE]
    /\ pc' = "reload"
    /\ UNCHANGED <<state_file, envVars, cooldowns, running, reload_requested, pollVars,
                   histVars, last_jobs>>

\* self._reload_requested = False, after reload_config() has returned.
ReloadEnd ==
    /\ pc = "reload"
    /\ reload_requested' = FALSE
    /\ pc' = "jobs"
    /\ UNCHANGED <<auxVars, jobVars, envVars, cooldowns, config, watcher_config, next_runs,
                   running, pollVars, histVars>>

\* Mutant: the tick goes to the watcher's poll before the job step.
TickStartsWithPoll ==
    /\ pc = "top" /\ running /\ ~reload_requested
    /\ pc' = "poll"
    /\ UNCHANGED <<auxVars, jobVars, envVars, cooldowns, schedVars, pollVars, histVars>>

\* No reload was requested.
TickStart ==
    /\ pc = "top" /\ running /\ ~reload_requested
    /\ pc' = "jobs"
    /\ UNCHANGED <<auxVars, jobVars, envVars, cooldowns, schedVars, pollVars, histVars>>

\* Mutant: a job whose body did not succeed is not rescheduled.
RunJobsRescheduleOnSuccess ==
    /\ pc = "jobs"
    /\ LET ran == run_summaries(config, next_runs, clock) IN
          /\ \E outcome \in [ran -> BodyOutcomes] :
                /\ last_jobs' = [at |-> clock, called |-> due_summaries(next_runs, clock),
                                 ran |-> ran, outcome |-> outcome, stopping |-> ~running]
                /\ next_runs' = [n \in DOMAIN next_runs |->
                                   IF n \in ran /\ outcome[n] = "ok"
                                   THEN run_due_summaries(config, next_runs, clock)[n]
                                   ELSE next_runs[n]]
                /\ computed' = [n \in {k \in ran : outcome[k] = "ok"}
                                          \cup (DOMAIN next_runs \cap DOMAIN computed) |->
                                  IF n \in ran /\ outcome[n] = "ok"
                                  THEN [at |-> clock,
                                        cron |-> config.summaries[get_summary_config(config, n)].cron]
                                  ELSE computed[n]]
    /\ pc' = "poll"
    /\ UNCHANGED <<auxVars, envVars, cooldowns, config, watcher_config, running, reload_requested,
                   pollVars, histVars>>

\* now = datetime.now(); every due summary is run and rescheduled, however its
\* body ends.
RunJobs ==
    /\ pc = "jobs"
    /\ next_runs' = run_due_summaries(config, next_runs, clock)
    /\ LET ran == run_summaries(config, next_runs, clock) IN
          /\ \E outcome \in [ran -> BodyOutcomes] :
                last_jobs' = [at |-> clock, called |-> due_summaries(next_runs, clock),
                              ran |-> ran, outcome |-> outcome, stopping |-> ~running]
          /\ computed' = [n \in DOMAIN next_runs' \cap (ran \cup DOMAIN computed) |->
                            IF n \in ran
                            THEN [at |-> clock,
                                  cron |-> config.summaries[get_summary_config(config, n)].cron]
                            ELSE computed[n]]
    /\ pc' = "poll"
    /\ UNCHANGED <<auxVars, envVars, cooldowns, config, watcher_config, running, reload_requested,
                   pollVars, histVars>>

\* check_new_detections has returned (its locals are gone); time.sleep(10), and
\* whatever the pass itself took.
Sleep(steps) ==
    /\ pc = "sleep"
    /\ IF advances < MaxAdvance
       THEN /\ \E d \in steps : clock' = clock + d
            /\ advances' = advances + 1
       ELSE UNCHANGED <<auxVars, clock, advances>>
    /\ new_ids' = << >>
    /\ idx' = 0
    /\ processed' = 0
    /\ after_id' = 0
    /\ last_call' = NoCall
    /\ last_jobs' = NoJobs
    /\ pc' = "top"
    /\ UNCHANGED <<auxVars, computed, notes, seq_id, existing, cooldowns, schedVars, last_id, failed_after,
                   handled, not_found, last_ok>>

\* ------------------------------------------------------------ DetectionWatcher
\* Mutant: the watermark moves only when handle_detection returned.
NextWatermarkInsideTry(watermark, detection_id, found, raised) ==
    IF raised THEN watermark ELSE detection_id

\* self.last_id = detection_id, at the end of every pass of the for loop.
NextWatermark(watermark, detection_id, found, raised) == detection_id

\* Mutant: a failed query moves the watermark to the last id seen by the database.
PollQueryFailsAdvancing ==
    /\ pc = "poll"
    /\ last_jobs' = AfterJobs(last_jobs)
    /\ computed' = EmptyMap
    /\ after_id' = last_id
    /\ failed_after' = last_id
    /\ last_id' = seq_id
    /\ processed' = 0
    /\ last_call' = NoCall
    /\ pc' = "sleep"
    /\ UNCHANGED <<auxVars, envVars, cooldowns, schedVars, new_ids, idx, handled,
                   not_found, last_ok>>

\* get_new_detection_ids raised: return 0.
PollQueryFails ==
    /\ pc = "poll"
    /\ last_jobs' = AfterJobs(last_jobs)
    /\ computed' = EmptyMap
    /\ after_id' = last_id
    /\ failed_after' = last_id
    /\ processed' = 0
    /\ last_call' = NoCall
    /\ pc' = "sleep"
    /\ UNCHANGED <<auxVars, envVars, cooldowns, schedVars, last_id, new_ids, idx, handled,
                   not_found, last_ok>>

\* new_ids = get_new_detection_ids(self.db_config, self.last_id); processed = 0
PollQuery ==
    /\ pc = "poll"
    /\ last_jobs' = AfterJobs(last_jobs)
    /\ computed' = EmptyMap
    /\ after_id' = last_id
    /\ failed_after' = -1
    /\ new_ids' = get_new_detection_ids(notes, last_id)
    /\ idx' = 0
    /\ processed' = 0
    /\ last_call' = NoCall
    /\ pc' = IF new_ids' = << >> THEN "sleep" ELSE "batch"
    /\ UNCHANGED <<auxVars, envVars, cooldowns, schedVars, last_id, handled, not_found, last_ok>>

\* The position of the for loop after one more id.
Advance ==
    /\ idx' = idx + 1
    /\ pc' = IF idx + 1 = Len(new_ids) THEN "sleep" ELSE "batch"

\* get_detection_by_id raised: nothing in check_new_detections or run() catches it.
FetchRaises ==
    /\ pc = "batch"
    /\ pc' = "crashed"
    /\ last_call' = NoCall
    /\ UNCHANGED <<auxVars, jobVars, envVars, cooldowns, schedVars, pollVars, handled, not_found, last_ok>>

\* get_detection_by_id returned None.
FetchNone ==
    /\ pc = "batch"
    /\ LET detection_id == new_ids[idx + 1] IN
          /\ detection_id \notin DOMAIN notes
          /\ not_found' = not_found \cup {detection_id}
          /\ last_id' = NextWatermark(last_id, detection_id, FALSE, FALSE)
    /\ Advance
    /\ last_call' = NoCall
    /\ UNCHANGED <<auxVars, jobVars, envVars, cooldowns, schedVars, new_ids, processed, after_id,
                   failed_after, handled, last_ok>>

\* The row was fetched and passed to handle_detection.
FetchAndHandle ==
    /\ pc = "batch"
    /\ LET detection_id == new_ids[idx + 1] IN
          /\ detection_id \in DOMAIN notes
          /\ \E io \in IOOutcomes :
                LET detection == Detection(detection_id, notes[detection_id])
                    sci == detection.scientific_name
                    r == handle_detection(detection, watcher_config, notes, cooldowns,
                                          clock, io)
                IN  /\ handled' = [handled EXCEPT ![detection_id] = @ + 1]
                    /\ processed' = IF r.raised THEN processed ELSE processed + 1
                    /\ cooldowns' = r.file
                    /\ last_call' = CallRecord(detection, watcher_config, io, r)
                    /\ last_ok' = IF r.notification_sent
                                  THEN [last_ok EXCEPT ![sci] = clock] ELSE last_ok
                    /\ last_id' = NextWatermark(last_id, detection_id, TRUE, r.raised)
    /\ Advance
    /\ UNCHANGED <<auxVars, jobVars, envVars, schedVars, new_ids, after_id, failed_after, not_found>>

\* ------------------------------------------------- handle_detection_by_id
\* A database, a cooldown file, a configuration and a time of day the notify
\* handler is called in.  No scheduler runs in this process.
DecideScenarios ==
    \* one or two rows of history against the new-species triggers
    { [clock |-> HistoryNow, config |-> c, notes |-> h, file |-> EmptyMap] :
        c \in NewSpeciesConfigs,
        h \in UNION { [ids -> {Row(sci, 80, t) : sci \in Species, t \in HistoryTimes}] :
                        ids \in {s \in SUBSET (1..MaxId) : Cardinality(s) \in {1, 2}} } }
    \cup
    \* one row against the thresholds, the lists and the cooldown file
    { [clock |-> HistoryNow, config |-> c,
       notes |-> [i \in {1} |-> Row(sci, conf, HistoryNow)],
       file |-> [k \in keys |-> HistoryNow - age[k]]] :
        c \in RealtimeConfigs, sci \in Species, conf \in DecideConfidences,
        keys \in SUBSET Species, age \in [Species -> StoreAges] }
    \cup
    \* one row against the season tables, over the year
    { [clock |-> t, config |-> c,
       notes |-> [i \in {1} |-> Row("Cardinalis cardinalis", 80, t)],
       file |-> EmptyMap] :
        c \in SeasonTableConfigs, t \in SeasonDates }

DecideInit ==
    /\ \E sc \in DecideScenarios :
          /\ clock = sc.clock
          /\ notes = sc.notes
          /\ cooldowns = sc.file
          /\ config = sc.config
    /\ advances = 0
    /\ seq_id = get_max_detection_id(notes)
    /\ existing = {}
    /\ watcher_config = config
    /\ next_runs = initialize_schedules(config, clock)
    /\ running = FALSE
    /\ reload_requested = FALSE
    /\ pc = "cli"
    /\ last_id = 0
    /\ new_ids = << >>
    /\ idx = 0
    /\ processed = 0
    /\ after_id = 0
    /\ failed_after = -1
    /\ handled = [i \in 1..MaxId |-> 0]
    /\ not_found = {}
    /\ last_call = NoCall
    /\ last_ok = [s \in Species |-> -1]
    /\ last_jobs = NoJobs
    /\ computed = InitialComputed(config, clock)
    /\ signals = NoSignals
    /\ watcher_db_config = birdnet(config)
    /\ state_file = NotAnObject("missing")

\* Mutant: a detection the process has just decided an alert for is not decided
\* again.
handle_detection_by_id_memo(detection_id, io) ==
    LET detection == Detection(detection_id, notes[detection_id])
        r == handle_detection(detection, config, notes, cooldowns, clock, io)
    IN  IF last_call.id = detection_id /\ last_call.track # "none" /\ ~r.raised
        THEN [r EXCEPT !.is_new = FALSE, !.reason = None, !.track = "none",
                       !.new_species_alerts = 0, !.realtime_alerts = 0,
                       !.notification_sent = FALSE, !.file = cooldowns]
        ELSE r

\* handle_detection_by_id, the row found: handle_detection(detection, config).
handle_detection_by_id(detection_id, io) ==
    handle_detection(Detection(detection_id, notes[detection_id]), config, notes,
                     cooldowns, clock, io)

\* The calls of the handler are made where the cooldown file can be written.
HandlerOutcomes == {io \in IOOutcomes : io.save = "ok"}

\* get_detection_by_id returned None: "Detection not found", return False.
HandleMissing ==
    /\ pc = "cli"
    /\ \E detection_id \in (1..MaxId) \ DOMAIN notes :
          not_found' = not_found \cup {detection_id}
    /\ last_call' = NoCall
    /\ UNCHANGED <<auxVars, jobVars, envVars, cooldowns, schedVars, pc, pollVars, handled, last_ok>>

\* One call of handle_detection_by_id on a row of the table.
HandleById ==
    /\ pc = "cli"
    /\ \E detection_id \in DOMAIN notes, io \in HandlerOutcomes :
          LET detection == Detection(detection_id, notes[detection_id])
              r == handle_detection_by_id(detection_id, io)
          IN  /\ cooldowns' = r.file
              /\ last_call' = CallRecord(detection, config, io, r)
              /\ last_ok' = IF r.notification_sent
                            THEN [last_ok EXCEPT ![detection.scientific_name] = clock]
                            ELSE last_ok
    /\ UNCHANGED <<auxVars, jobVars, envVars, schedVars, pc, pollVars, handled, not_found>>

\* ------------------------------------------------- the cooldown and state files
\* What may be found at the path of the cooldown file, and of the state file.
CooldownFiles ==
    { NotAnObject(kind) : kind \in {"missing", "unreadable", "corrupt", "not_utf8", "array"} }
    \cup
    { EmptyMap,
      [s \in WatchSpecies |-> StartClock - 60],
      [s \in WatchSpecies |-> StartClock - PruneAgeSeconds] }

StateFiles ==
    { NotAnObject(kind) : kind \in {"missing", "unreadable", "corrupt", "not_utf8", "array"} }
    \cup
    { EmptyMap, NoState,
      [last_sent |-> NotAnObject("array")],
      [last_sent |-> [n \in {"daily"} |-> IsoText(StartClock - 60)]],
      [last_sent |-> [n \in {"daily"} |-> NotIsoText]],
      [last_sent |-> [n \in {"daily"} |-> JsonNumber]] }

\* One call of a file operation: whether it raised and what it answered.
NoFileCall == [op |-> None, raised |-> FALSE, answer |-> FALSE, found |-> FALSE, at |-> 0]

FileCall(op, raised, answer, last) ==
    [op |-> op, raised |-> raised, answer |-> ~raised /\ answer,
     found |-> ~raised /\ last.found, at |-> IF raised THEN 0 ELSE last.at]

FileInit ==
    /\ clock = StartClock
    /\ advances = 0
    /\ notes = EmptyMap
    /\ seq_id = 0
    /\ existing = {}
    /\ cooldowns \in CooldownFiles
    /\ state_file \in StateFiles
    /\ config = BaseConfig
    /\ watcher_config = config
    /\ watcher_db_config = birdnet(config)
    /\ next_runs = initialize_schedules(config, clock)
    /\ running = FALSE
    /\ reload_requested = FALSE
    /\ signals = NoSignals
    /\ pc = "cli"
    /\ last_id = 0
    /\ new_ids = << >>
    /\ idx = 0
    /\ processed = 0
    /\ after_id = 0
    /\ failed_after = -1
    /\ handled = [i \in 1..MaxId |-> 0]
    /\ not_found = {}
    /\ last_call = NoFileCall
    /\ last_ok = [s \in Species |-> -1]
    /\ last_jobs = NoJobs
    /\ computed = InitialComputed(config, clock)

FileFrame ==
    UNCHANGED <<envVars, schedVars, pc, pollVars, handled, not_found, last_ok, jobVars,
                signals, watcher_db_config>>

IsOnCooldownCall ==
    /\ \E species \in WatchSpecies, cooldown_minutes \in {0, DefaultCooldownMinutes} :
          last_call' = FileCall("is_on_cooldown",
                                is_on_cooldown_raises(cooldowns, cooldown_minutes),
                                is_on_cooldown(cooldowns, species, cooldown_minutes, clock),
                                NoFileCall)
    /\ UNCHANGED <<cooldowns, state_file>>
    /\ FileFrame

SetCooldownCall ==
    /\ \E species \in WatchSpecies, save \in {"ok", "open_fails", "write_fails"} :
          /\ last_call' = FileCall("set_cooldown", set_cooldown_raises(cooldowns), FALSE, NoFileCall)
          /\ cooldowns' = IF set_cooldown_raises(cooldowns) THEN cooldowns
                          ELSE set_cooldown(cooldowns, species, clock, save)
    /\ UNCHANGED state_file
    /\ FileFrame

RecordSummarySent ==
    /\ \E name \in {"daily", "weekly"}, save \in {"ok", "open_fails", "write_fails"} :
          /\ last_call' = FileCall("record_summary_sent", record_summary_sent_raises(state_file),
                                   FALSE, NoFileCall)
          /\ state_file' = IF record_summary_sent_raises(state_file) THEN state_file
                           ELSE record_summary_sent(state_file, name, clock, save)
    /\ UNCHANGED cooldowns
    /\ FileFrame

GetLastSent ==
    /\ \E name \in {"daily", "weekly"} :
          last_call' = FileCall("get_last_sent", get_last_sent_raises(state_file, name), FALSE,
                                IF get_last_sent_raises(state_file, name) THEN NoFileCall
                                ELSE get_last_sent(state_file, name))
    /\ UNCHANGED <<cooldowns, state_file>>
    /\ FileFrame

FileNext == IsOnCooldownCall \/ SetCooldownCall \/ RecordSummarySent \/ GetLastSent

FileSpec == FileInit /\ [][FileNext]_vars

\* ------------------------------------------------------------ specifications
Init == InitFrom(WatchConfigs, WatchSpecies)

Insert == InsertRow(WatchSpecies, WatchConfidences, {"poll", "batch"})

Reload == ReloadOk(WatchConfigs)

Pass == Sleep(WatchSleepSteps)

\* What the scheduler process itself does.
SchedulerStep ==
    \/ Run \/ LoopExit \/ ReloadFails \/ Reload \/ TickStart \/ RunJobs
    \/ PollQueryFails \/ PollQuery \/ FetchRaises \/ FetchNone \/ FetchAndHandle
    \/ Pass

\* The scheduler and its watcher, with signals, reloads, deletions and failures.
Next ==
    \/ Insert \/ Delete \/ Sighup \/ Sigterm
    \/ SchedulerStep

Spec == Init /\ [][Next]_vars

\* The notification engine under the watcher: every species, confidence and
\* configuration, passes shorter and longer than the cooldown; no signals, no
\* deletions, no database failures.
NotifyInit == InitFrom(Configs, Species)

NotifyInsert == InsertRow(Species, Confidences, {"poll"})

NotifyPass == Sleep(SleepSteps)

NotifyNext ==
    \/ NotifyInsert
    \/ Run \/ TickStart \/ RunJobs
    \/ PollQuery \/ FetchAndHandle
    \/ NotifyPass

NotifySpec == NotifyInit /\ [][NotifyNext]_vars

\* The job schedule under the loop: every summary configuration, ticks around the
\* triggers, job bodies that succeed, fail and raise, reloads that succeed and
\* fail, and both signals arriving at any point of a tick.
LoopPoints == {"top", "jobs", "poll", "batch", "sleep"}

JobInit == InitAt(JobConfigs, WatchSpecies, JobStart)

JobInsert == InsertRow(WatchSpecies, WatchConfidences, {"poll"})

JobSighup == SighupAt(LoopPoints)

JobSigterm == SigtermAt(LoopPoints)

JobReload == ReloadOk(JobConfigs)

JobPass == Sleep(JobSleepSteps)

JobSchedulerStep ==
    \/ Run \/ LoopExit \/ ReloadFails \/ JobReload \/ TickStart \/ RunJobs
    \/ PollQuery \/ FetchAndHandle
    \/ JobPass

JobNext ==
    \/ JobInsert \/ JobSighup \/ JobSigterm
    \/ JobSchedulerStep

JobSpec == JobInit /\ [][JobNext]_vars

\* The same loop while no new rows arrive, and the scheduler keeps running it.
StopNext ==
    \/ JobSighup \/ JobSigterm
    \/ JobSchedulerStep

StopSpec == JobInit /\ [][StopNext]_vars

FairStopSpec == StopSpec /\ WF_vars(JobSchedulerStep)

\* The loop with the reloads that fail after the configuration was assigned.
ReloadSpec == JobInit /\ [][StopNext \/ ReloadFailsPartly]_vars

\* The loop with the signals at every point from the installation of the
\* handlers on: the stop signal also before run() has started, the reload signal
\* also between reload_config() and the clearing of the flag.
SignalStep ==
    \/ Run \/ LoopExit \/ ReloadBegin(JobConfigs) \/ ReloadEnd \/ TickStart \/ RunJobs
    \/ PollQuery \/ FetchAndHandle
    \/ JobPass

SignalNext ==
    \/ SighupAt(LoopPoints \cup {"reload"})
    \/ SigtermAt(LoopPoints \cup {"reload", "start"})
    \/ SignalStep

SignalSpec == JobInit /\ [][SignalNext]_vars

FairSignalSpec == SignalSpec /\ WF_vars(SignalStep)

\* Single calls of the notify handler on every scenario.
DecideNext == HandleById \/ HandleMissing

DecideSpec == DecideInit /\ [][DecideNext]_vars

\* The scheduler keeps running its loop, and the store does not stay unreachable
\* for ever.
FairSpec == Spec /\ WF_vars(SchedulerStep) /\ SF_vars(PollQuery)

\* ------------------------------------------------------------------ claims
Ids == 1..MaxId

\* C1: over any sequence of polls of one watcher, with reloads, query failures
\* and handling errors in between, each detection id is passed to
\* handle_detection at most once.
C1_HandledAtMostOnce == \A id \in Ids : handled[id] <= 1

\* C1 witness: an id was handled once and a later poll has queried from a
\* watermark at or past it.
C1_Witness ==
    \E id \in Ids : handled[id] = 1 /\ after_id >= id /\ pc = "sleep" /\ failed_after = -1

\* C2: a row inserted after the watcher started, and still in the table, is
\* eventually passed to handle_detection unless it is deleted first or the loop
\* stops; and the watermark never passes a row that is in the table without the
\* row having been handled.
C2_NoneSkipped ==
    /\ [](\A id \in Ids :
            (id \in DOMAIN notes /\ id \notin existing /\ id <= last_id) => handled[id] > 0)
    /\ \A id \in Ids :
            [](id \in DOMAIN notes /\ id \notin existing
                  => <>(handled[id] > 0 \/ id \notin DOMAIN notes \/ ~Live))

\* C2 witness: a row inserted after start is in the table and has been handled.
C2_Witness ==
    \E id \in Ids : id \notin existing /\ id \in DOMAIN notes /\ handled[id] = 1

\* C3 (as claimed): no detection that was in the table when the watcher was
\* constructed is ever passed to handle_detection.
C3_ExistingNeverHandled == \A id \in existing : handled[id] = 0

\* C4: the watermark never decreases.
C4_WatermarkMonotonic == [][last_id' >= last_id]_vars

\* C4 witness: the watermark has moved past a missing row and past a row whose
\* handling raised.
C4_Witness == not_found # {} /\ last_call.raised /\ last_id = last_call.id /\ last_id >= 2

\* C5 (as claimed): after a poll whose id query succeeded the watermark is the
\* maximum id of the returned batch, or unchanged when the batch is empty, and
\* a poll that found no new rows returned 0.
C5_WatermarkIsBatchMax ==
    (pc \in {"sleep", "crashed"} /\ failed_after = -1)
        => /\ last_id = IF new_ids = << >> THEN after_id ELSE new_ids[Len(new_ids)]
           /\ new_ids = << >> => processed = 0

\* C6: a failed id query returns 0, handles and dispatches nothing, leaves the
\* watermark and the cooldown store as they were, and the next query asks for
\* the ids after the same watermark.
C6_QueryFailureRetried ==
    /\ [][(pc = "poll" /\ pc' = "sleep" /\ failed_after' # -1)
            => /\ processed' = 0
               /\ last_id' = last_id
               /\ cooldowns' = cooldowns
               /\ handled' = handled
               /\ last_ok' = last_ok]_vars
    /\ [][(pc = "poll" /\ pc' # "poll" /\ failed_after # -1)
            => /\ after_id' = failed_after
               /\ (failed_after' = -1
                     => new_ids' = Ascending({id \in DOMAIN notes : id > failed_after}))]_vars

\* C6 witness: the query failed while rows newer than the watermark were waiting.
C6_Witness ==
    pc = "sleep" /\ failed_after = last_id /\ \E id \in DOMAIN notes : id > last_id

\* C7 (as claimed): a per-detection error never aborts the batch: when the poll
\* is over, every id of the batch has been gone through.
C7_BatchNeverAborted == pc \in {"sleep", "crashed"} => idx = Len(new_ids)

\* C8: handle_detection dispatches at most one alert per detection; the realtime
\* alert is sent only when the new-species check did not match, also when the
\* new-species dispatch failed.
C8_AtMostOneAlert ==
    /\ last_call.new_species_alerts + last_call.realtime_alerts <= 1
    /\ last_call.realtime_alerts = 1 => ~last_call.is_new
    /\ last_call.is_new => last_call.track = "new_species"

\* C8 witness: the new-species check matched a detection the realtime check
\* accepts too, and the new-species dispatch failed.
C8_Witness ==
    /\ last_call.is_new /\ last_call.realtime_eligible
    /\ ~last_call.notification_sent
    /\ last_call.realtime_alerts = 0

C10_CooldownWrittenOnSuccess ==
    [][cooldowns' # cooldowns
         => (pc = "batch" /\ last_call'.id # 0 /\ last_call'.notification_sent)]_vars

\* C10 witness: an alert was decided, its dispatch failed, and the non-empty
\* store is as it was.
C10_Witness ==
    /\ last_call.track # "none" /\ ~last_call.notification_sent
    /\ cooldowns # EmptyMap

\* ------------------------------------------------- claims on single calls
\* A handle_detection call was made in the last step and reached its checks.
Called == last_call.id # 0 /\ ~last_call.raised

EverReason == "First ever sighting!"
YearReason == "First sighting of " \o ToString(YearOf(clock)) \o "!"

\* The rows of the species of the last call.
SpeciesRows == {id \in DOMAIN notes : notes[id].scientific_name = last_call.scientific_name}

\* Its rows of lower id that began at or after since.
PriorSince(since) ==
    {id \in SpeciesRows : notes[id].begin_time >= since /\ id < last_call.id}

\* C11 (as claimed): after a successful dispatch of either track the cooldown
\* store maps the scientific name of the detection, never its common name, to
\* the current time.
C11_StoredOnEveryDispatch ==
    last_call.notification_sent
        => /\ last_call.scientific_name \in DOMAIN cooldowns
           /\ cooldowns[last_call.scientific_name] = clock
           /\ last_call.common_name \notin DOMAIN cooldowns

\* C11 (amended): after a successful dispatch of either track whose cooldown
\* write completed, the store maps the scientific name of the detection to the
\* current time, and after one whose write failed the store is as it was or
\* empty; no common name is ever a key of the store; and the realtime check
\* reads the entry under the scientific name: while that entry is younger than
\* the cooldown the realtime check does not match.
C11_StoredUnderScientificName ==
    /\ last_call.saved
          => /\ last_call.scientific_name \in DOMAIN cooldowns
             /\ cooldowns[last_call.scientific_name] = clock
    /\ (last_call.notification_sent /\ ~last_call.saved)
          => cooldowns \in {last_call.file_before, EmptyMap}
    /\ \A sci \in Species : CommonName(sci) \notin DOMAIN cooldowns
    /\ (/\ Called /\ last_call.cooldown_minutes > 0
        /\ last_call.scientific_name \in DOMAIN last_call.file_before
        /\ clock - last_call.file_before[last_call.scientific_name]
               < last_call.cooldown_minutes * 60)
          => ~last_call.realtime_eligible /\ last_call.track # "realtime"

\* C11 witness: with new_species enabled, an earlier dispatch for the species
\* saved the entry, and the realtime check of its next detection found it.
C11_Witness ==
    /\ Called /\ ~last_call.is_new /\ last_call.on_cooldown
    /\ last_call.since_ok = last_call.since_stored
    /\ \E id \in DOMAIN notes :
          /\ id # last_call.id /\ handled[id] = 1
          /\ notes[id].scientific_name = last_call.scientific_name
    /\ config.ns_enabled /\ last_call.confidence >= config.rt_min_confidence

\* C12: a confidence below new_species.min_confidence never yields a new-species
\* alert, one below realtime.min_confidence never yields a realtime alert, one
\* below both yields no alert and leaves the cooldown store alone; a confidence
\* equal to a threshold is not rejected by it.
C12_BelowThresholdNoMatch ==
    Called =>
      /\ last_call.confidence < config.ns_min_confidence
            => ~last_call.is_new /\ last_call.new_species_alerts = 0
      /\ last_call.confidence < config.rt_min_confidence
            => ~last_call.realtime_eligible /\ last_call.realtime_alerts = 0
      /\ (/\ last_call.confidence < config.ns_min_confidence
          /\ last_call.confidence < config.rt_min_confidence)
            => /\ last_call.track = "none" /\ ~last_call.notification_sent
               /\ cooldowns = last_call.file_before
      /\ (/\ last_call.confidence = config.ns_min_confidence
          /\ config.ns_enabled /\ config.first_ever /\ Cardinality(SpeciesRows) = 1)
            => last_call.is_new
      /\ (/\ last_call.confidence = config.rt_min_confidence
          /\ config.rt_enabled /\ ~last_call.is_new
          /\ config.species_whitelist = {} /\ config.species_blacklist = {}
          /\ ~last_call.on_cooldown)
            => last_call.track = "realtime"

\* C12 witness: a realtime alert for a confidence equal to the realtime
\* threshold was dispatched.
C12_Witness ==
    /\ Called /\ last_call.confidence = config.rt_min_confidence
    /\ last_call.track = "realtime" /\ last_call.notification_sent

\* C13: with new_species enabled, the threshold met and first_ever enabled, the
\* first_ever trigger fires if and only if the table holds exactly one row of
\* the species of the detection.
C13_FirstEverIffOnlyRow ==
    (Called /\ config.ns_enabled /\ last_call.confidence >= config.ns_min_confidence
        /\ config.first_ever)
      => (last_call.reason = EverReason <=> Cardinality(SpeciesRows) = 1)

\* C13 witness: the species has two rows and first_ever did not fire for the
\* one decided, though another trigger did.
C13_Witness ==
    /\ Called /\ config.first_ever /\ Cardinality(SpeciesRows) = 2
    /\ last_call.is_new /\ last_call.reason # EverReason

\* The latest day not after today with the month and day the season named
\* starts on.
SeasonStart(season) ==
    LET b == config.seasons[season]
        this_year == DateTime(YearOf(clock), b[1], b[2])
    IN  IF this_year <= clock THEN this_year
        ELSE DateTime(YearOf(clock) - 1, b[1], b[2])

\* C14 (as claimed): first_of_year, when it is reached, fires if and only if no
\* row of the species with a lower id began on or after January 1 of the
\* current year; first_of_season likewise with the start of the current season.
C14_FirstOfWindowIffNoPrior ==
    (Called /\ config.ns_enabled /\ last_call.confidence >= config.ns_min_confidence)
      => /\ (config.first_of_year /\ last_call.reason # EverReason)
               => (last_call.reason = YearReason
                     <=> PriorSince(DateTime(YearOf(clock), 1, 1)) = {})
         /\ (config.first_of_season /\ last_call.reason \notin {EverReason, YearReason})
               => (last_call.is_new <=> PriorSince(SeasonStart(last_call.season)) = {})

\* What the queries of check_new_species return for the last call.
EverHolds == get_species_count(notes, last_call.scientific_name) = 1

YearHolds ==
    get_species_count_since(config.db_type, notes, last_call.scientific_name,
                            DateTime(YearOf(clock), 1, 1), last_call.id) = 0

SeasonHolds ==
    LET current_season == get_current_season(config, clock)
        year == IF current_season = "winter" /\ MonthOf(clock) < 3
                THEN YearOf(clock) - 1 ELSE YearOf(clock)
    IN  get_species_count_since(config.db_type, notes, last_call.scientific_name,
                                get_season_start_date(config, current_season, year),
                                last_call.id) = 0

SeasonReason == "First sighting of " \o Capitalize(get_current_season(config, clock)) \o "!"

\* C15: the reason returned is the one of the earliest trigger, in the order
\* first_ever, first_of_year, first_of_season, that is enabled and whose
\* condition holds; a disabled trigger produces no match.
C15_FirstEnabledTriggerWins ==
    (Called /\ config.ns_enabled /\ last_call.confidence >= config.ns_min_confidence)
      => /\ last_call.reason =
               IF config.first_ever /\ EverHolds THEN EverReason
               ELSE IF config.first_of_year /\ YearHolds THEN YearReason
               ELSE IF config.first_of_season /\ SeasonHolds THEN SeasonReason
               ELSE None
         /\ last_call.is_new <=> last_call.reason # None

\* C15 witness: the three triggers are enabled, the conditions of first_ever and
\* of first_of_year both hold, and the reason is the one of first_ever.
C15_Witness ==
    /\ Called /\ config.first_ever /\ config.first_of_year /\ config.first_of_season
    /\ EverHolds /\ YearHolds /\ SeasonHolds
    /\ last_call.reason = EverReason

C17_ListsRespected ==
    (Called /\ (last_call.realtime_eligible \/ last_call.track = "realtime"))
      => /\ last_call.common_name \notin config.species_blacklist
         /\ last_call.scientific_name \notin config.species_blacklist
         /\ config.species_whitelist # {}
               => \/ last_call.common_name \in config.species_whitelist
                  \/ last_call.scientific_name \in config.species_whitelist

\* C17 witness: a detection named in both lists, confident and off cooldown,
\* got no alert.
C17_Witness ==
    /\ Called /\ last_call.track = "none"
    /\ {last_call.common_name, last_call.scientific_name}
           \cap config.species_whitelist \cap config.species_blacklist # {}
    /\ config.rt_enabled /\ last_call.confidence >= config.rt_min_confidence
    /\ ~last_call.on_cooldown

\* C18: with cooldown_minutes 0 or negative is_on_cooldown answers false
\* whatever the store holds, and the realtime check is not held back by it.
C18_NonPositiveDisablesCooldown ==
    (Called /\ last_call.cooldown_minutes <= 0)
      => /\ ~last_call.on_cooldown
         /\ (/\ ~last_call.is_new /\ config.rt_enabled
             /\ last_call.confidence >= config.rt_min_confidence
             /\ config.species_whitelist = {} /\ config.species_blacklist = {})
               => last_call.track = "realtime"

\* C18 witness: with a cooldown of 0 or less a realtime alert was dispatched for
\* a species the store had an entry of ten seconds ago for.
C18_Witness ==
    /\ Called /\ last_call.cooldown_minutes <= 0
    /\ last_call.since_stored = SleepSeconds
    /\ last_call.track = "realtime" /\ last_call.notification_sent

\* C19: after a completed set_cooldown write the store holds the species just
\* written and no entry 24 hours old or older.
C19_WritePrunesStale ==
    last_call.saved
      => /\ last_call.scientific_name \in DOMAIN cooldowns
         /\ \A k \in DOMAIN cooldowns : clock - cooldowns[k] < PruneAgeSeconds

\* C19 witness: the write dropped the entry of another species that was exactly
\* 24 hours old.
C19_Witness ==
    /\ last_call.saved
    /\ \E k \in DOMAIN last_call.file_before :
          /\ k # last_call.scientific_name
          /\ clock - last_call.file_before[k] = PruneAgeSeconds
          /\ k \notin DOMAIN cooldowns

\* The boundary of season a is not after the one of season b.
BoundaryLeq(a, b) ==
    TupleLeq(config.seasons[a][1], config.seasons[a][2],
             config.seasons[b][1], config.seasons[b][2])

\* The boundary of the season is today or earlier in the year.
NotAfterToday(season) ==
    TupleLeq(config.seasons[season][1], config.seasons[season][2],
             MonthOf(clock), DayOf(clock))

\* The season has the latest of the boundaries not after today.
LatestNotAfterToday(season) ==
    /\ NotAfterToday(season)
    /\ \A n \in Range(SeasonNames) : NotAfterToday(n) => BoundaryLeq(n, season)

SeasonIndex(season) == CHOOSE i \in DOMAIN SeasonNames : SeasonNames[i] = season

CronPeriod(cron_expr) == IF cron_expr = CronEveryFive THEN 300 ELSE SecondsPerDay
IsTrigger(cron_expr, t) ==
    IF cron_expr = CronEveryFive THEN t % 300 = 0 ELSE t % SecondsPerDay = 8 * 3600

\* t is the first trigger of the expression after time at.
FirstTriggerAfter(cron_expr, at, t) ==
    /\ IsTrigger(cron_expr, t)
    /\ at < t
    /\ t <= at + CronPeriod(cron_expr)

\* The cron expressions of the enabled summaries scheduled under a name.
CronsOf(cfg, name) ==
    {cfg.summaries[i].cron : i \in {j \in DOMAIN cfg.summaries :
        cfg.summaries[j].enabled /\ ScheduledName(cfg.summaries[j]) = name}}

\* This step is the job step of a tick and executes the body of job n.
Executes(n) == pc = "jobs" /\ pc' = "poll" /\ n \in last_jobs'.ran

\* C21: a next run computed in this tick, at initialization, at a reload or
\* after a run, is strictly later than the time it was computed at and is the
\* first trigger after that time of the cron expression of an enabled summary
\* of that name; "0 8 * * *" computed at 08:01 of a day gives 08:00 of the next
\* day.
C21_NextRunIsFirstTriggerAfter ==
    /\ DOMAIN computed \subseteq DOMAIN next_runs
    /\ pc \in {"start", "cli"} => DOMAIN computed = DOMAIN next_runs
    /\ \A n \in DOMAIN computed :
          /\ computed[n].at = clock
          /\ next_runs[n] > computed[n].at
          /\ computed[n].cron \in CronsOf(config, n)
          /\ FirstTriggerAfter(computed[n].cron, computed[n].at, next_runs[n])
          /\ (computed[n].cron = CronDailyEight /\ computed[n].at = JobStart + 7 * SleepSeconds)
               => next_runs[n] = JobStart + SleepSeconds + SecondsPerDay

\* C21 witness: a daily job has run at 08:01 and its next run is 08:00 of the
\* next day.
C21_Witness ==
    \E n \in DOMAIN computed :
       /\ computed[n].cron = CronDailyEight
       /\ computed[n].at = JobStart + 7 * SleepSeconds
       /\ n \in last_jobs.ran
       /\ next_runs[n] = JobStart + SleepSeconds + SecondsPerDay

\* C22: a step executes a job only when its trigger time has been reached, and
\* leaves it with a next run later than now that was computed at this
\* execution, however many of its triggers have elapsed: no trigger is executed
\* twice and none is made up for.  Jobs are executed by the job step only, each
\* at most once in it.
C22_OncePerCrossingNoBackfill ==
    [][/\ last_jobs'.ran # last_jobs.ran => (pc = "jobs" \/ last_jobs'.ran = {})
       /\ \A n \in DOMAIN next_runs \cup last_jobs'.ran :
             Executes(n)
               => /\ n \in DOMAIN next_runs
                  /\ clock >= next_runs[n]
                  /\ n \in DOMAIN next_runs'
                       => /\ next_runs'[n] > clock
                          /\ computed'[n].at = clock]_vars

\* C22 witness: the tick after a pass that blocked over three five-minute
\* triggers of a job has executed the job, and its next run is the trigger
\* after now.
C22_Witness ==
    \E n \in last_jobs.ran :
       /\ advances = 1
       /\ last_jobs.at = JobStart + 61 * SleepSeconds
       /\ pc = "poll"
       /\ computed[n].cron = CronEveryFive
       /\ next_runs[n] = last_jobs.at + 300

\* C23: while the loop runs, a job of the schedule table whose trigger time has
\* been reached when a tick starts is still due when that tick comes to its job
\* step, whatever the top of the tick did (a reload included), and the job step
\* executes every job that is due, once.
C23_CrossedTriggerExecuted ==
    [][/\ (pc = "top" /\ pc' = "jobs")
          => \A n \in DOMAIN next_runs \cap DOMAIN next_runs' :
                next_runs[n] <= clock => next_runs'[n] <= clock
       /\ (pc = "jobs" /\ pc' = "poll")
          => \A n \in DOMAIN next_runs :
                next_runs[n] <= clock => Executes(n)]_vars

\* C24: a job whose body was executed in the job step of this tick, whether the
\* body succeeded, returned failure or raised, has a next run that was computed
\* at this execution and is strictly later than now (it is dropped from the
\* table instead when the cron expression of its summary is invalid).
C24_RescheduledWhateverTheBody ==
    \A n \in last_jobs.ran :
       /\ pc = "poll" => (n \in DOMAIN last_jobs.outcome /\ last_jobs.outcome[n] \in BodyOutcomes)
       /\ last_jobs.at = clock
       /\ IF CronValid(config.summaries[get_summary_config(config, n)].cron)
          THEN /\ n \in DOMAIN next_runs
               /\ next_runs[n] > clock
               /\ pc = "poll" => computed[n].at = clock
          ELSE n \notin DOMAIN next_runs

\* C24 witness: the body of a job raised at a tick after the first trigger of the
\* day, and the job's next run is later than now.
C24_Witness ==
    \E n \in DOMAIN last_jobs.outcome :
       /\ last_jobs.outcome[n] = "raised"
       /\ clock > JobStart + SleepSeconds
       /\ next_runs[n] > clock

\* An enabled summary with an invalid cron expression.
InvalidJob(summary) == summary.enabled /\ summary.cron = CronInvalid

\* The configuration without its invalid jobs.
WithoutInvalid(cfg) ==
    LET Kept(summary) == ~InvalidJob(summary)
    IN  [cfg EXCEPT !.summaries = SelectSeq(cfg.summaries, Kept)]

\* The names under which only invalid jobs are scheduled.
InvalidNames(cfg) ==
    {ScheduledName(cfg.summaries[i]) : i \in {j \in DOMAIN cfg.summaries : InvalidJob(cfg.summaries[j])}}
    \ DOMAIN initialize_schedules(WithoutInvalid(cfg), 0)

C26_ReloadOnlyAtTopOfTick ==
    [][/\ (config' # config \/ watcher_config' # watcher_config)
          => (pc = "top" /\ reload_requested /\ ~reload_requested' /\ pc' = "jobs")
       /\ (reload_requested' /\ ~reload_requested)
          => UNCHANGED <<config, watcher_config, watcher_db_config, next_runs, computed, pc>>
       /\ pc \in {"poll", "batch", "sleep"} => next_runs' = next_runs
       /\ pc = "jobs"
          => /\ DOMAIN next_runs' \subseteq DOMAIN next_runs
             /\ \A n \in DOMAIN next_runs' :
                   next_runs'[n] # next_runs[n] => n \in last_jobs'.ran]_vars

\* C26 witness: a reload was requested after the top of this tick; the tick has
\* executed a job and is in its poll with the request pending and the
\* configuration it started with.
C26_Witness ==
    /\ reload_requested
    /\ pc = "batch"
    /\ last_jobs.ran # {}
    /\ watcher_config = config

\* C27: once a stop signal has cleared the running flag of the running loop,
\* the flag stays false, the loop goes from the top of a tick nowhere but out,
\* so that no further tick is started, and the loop does exit.
C27_StopTerminatesLoop ==
    /\ [][(~running /\ pc # "start") => ~running']_vars
    /\ [][(~running /\ pc = "top") => pc' \in {"top", "stopped"}]_vars
    /\ [][pc = "stopped" => pc' = "stopped"]_vars
    /\ (~running /\ pc \in LoopPoints) ~> (pc = "stopped")

\* C27 witness: the loop has ticked, was stopped, and has exited.
C27_Witness ==
    /\ pc = "stopped"
    /\ ~running
    /\ advances > 0

C29_NoErrorEndsLoop ==
    pc \notin LoopPoints \cup {"start"} => (pc = "stopped" /\ ~running)

\* The order of the points of run(): the loop test, the reload, the job step,
\* the id query, the batch, the sleep.
TickOrder ==
    { <<"start", "top">>, <<"top", "jobs">>, <<"top", "stopped">>, <<"jobs", "poll">>,
      <<"poll", "batch">>, <<"poll", "sleep">>, <<"batch", "sleep">>, <<"sleep", "top">> }

\* C30: the loop moves through a tick in the order reload, job step, poll,
\* sleep, with one id query between the job step and the sleep; a pending
\* reload flag is cleared at the top of the tick and nowhere else; jobs are
\* executed, all that are due at once, only in the job step, detections are
\* handled only in the batch after it, and the clock moves only in the sleep.
C30_TickOrder ==
    [][/\ pc' # pc => <<pc, pc'>> \in TickOrder
       /\ (reload_requested /\ ~reload_requested') => (pc = "top" /\ pc' = "jobs")
       /\ (pc = "top" /\ pc' = "jobs") => ~reload_requested'
       /\ (\E n \in last_jobs'.ran : n \notin last_jobs.ran)
          => (pc = "jobs" /\ pc' = "poll" /\ handled' = handled)
       /\ (pc = "jobs" /\ pc' = "poll")
          => last_jobs'.ran = run_summaries(config, next_runs, clock)
       /\ (new_ids' # new_ids /\ pc # "sleep") => pc = "poll"
       /\ handled' # handled => (pc = "batch" /\ last_jobs' = last_jobs)
       /\ clock' # clock => (pc = "sleep" /\ pc' = "top")]_vars

\* C30 witness: one tick of the running loop has executed a due job and then
\* handled a detection in its poll, and is at its sleep.
C30_Witness ==
    /\ running
    /\ last_jobs.ran # {}
    /\ last_jobs.at = clock
    /\ last_call.id # 0
    /\ handled[last_call.id] = 1
    /\ pc = "sleep"

\* The enabled summaries of a configuration whose cron expression is valid.
ValidJobs(cfg) ==
    {i \in DOMAIN cfg.summaries : cfg.summaries[i].enabled /\ cfg.summaries[i].cron # CronInvalid}

\* C31: a successful reload leaves in the schedule table exactly the names of
\* the enabled summaries of the new configuration that have a valid cron
\* expression, each with the first trigger after the reload time of such a
\* summary of that name, and the watcher refers to the new configuration and
\* its birdnet section; every detection handled afterwards is decided with the
\* watcher's configuration.
C31_ReloadInstallsNewConfig ==
    [][/\ JobReload
          => /\ DOMAIN next_runs' = {ScheduledName(config'.summaries[i]) : i \in ValidJobs(config')}
             /\ \A n \in DOMAIN next_runs' :
                   \E i \in ValidJobs(config') :
                      /\ ScheduledName(config'.summaries[i]) = n
                      /\ FirstTriggerAfter(config'.summaries[i].cron, clock, next_runs'[n])
             /\ clock' = clock
             /\ watcher_config' = config'
             /\ watcher_db_config' = birdnet(config')
       /\ (pc = "batch" /\ last_call'.id # 0 /\ ~last_call'.raised)
          => last_call'.is_new =
                check_new_species(Detection(last_call'.id, notes[last_call'.id]),
                                  watcher_config, notes, clock).is_new]_vars

\* C31 witness: a reload after the first tick has installed the configuration
\* with a daily and an invalid summary; the table holds the daily job only,
\* computed at the reload time, and the watcher refers to that configuration.
C31_Witness ==
    /\ pc = "jobs"
    /\ clock > JobStart
    /\ config = RealtimeOnlyConfig
    /\ watcher_config = config
    /\ DOMAIN next_runs = {"daily"}
    /\ DOMAIN computed = {"daily"}
    /\ computed["daily"].at = clock

\* C32: no operation on the cooldown file or on the state file raises, whatever
\* the file holds, and a file that is missing, unreadable or no JSON loads as
\* the empty state.
C32_FilesNeverFatal ==
    /\ ~last_call.raised
    /\ \A kind \in {"missing", "unreadable", "corrupt"} :
          /\ cooldowns = [json |-> kind] => load_cooldowns(cooldowns) = EmptyMap
          /\ state_file = [json |-> kind] => load_state(state_file) = [last_sent |-> EmptyMap]

\* C33: whenever the first_of_season check has determined the current season,
\* the start date of that season for the year anchor (the previous year only
\* when the season is winter and the month is before March) is not later than
\* the current date.
C33_SeasonStartNotAfterToday ==
    (pc = "cli" /\ last_call.season # None)
       => LET year == IF last_call.season = "winter" /\ MonthOf(clock) < 3
                      THEN YearOf(clock) - 1 ELSE YearOf(clock)
          IN  DateTime(year, config.seasons[last_call.season][1],
                       config.seasons[last_call.season][2]) <= clock

\* C34: a reload signal delivered while the loop is running is followed by the
\* start of a reload (unless the loop is stopped first).
C34_NoReloadRequestLost ==
    (signals.hup /\ running) ~> (~signals.hup \/ ~running)

\* C35: a stop signal delivered after the handlers were installed, before run()
\* has started or at any point of the loop, is followed by the loop's exit.
C35_NoStopRequestLost ==
    signals.term ~> (pc = "stopped")

\* C36: a reload that fails, at whatever statement, leaves the scheduler's
\* configuration, the schedule table and the watcher's config and db_config as
\* they were, and the three references agree afterwards.
C36_FailedReloadAtomic ==
    [][(ReloadFails \/ ReloadFailsPartly)
          => /\ UNCHANGED <<config, next_runs, watcher_config, watcher_db_config>>
             /\ watcher_config' = config'
             /\ watcher_db_config' = birdnet(config')]_vars

\* C37: the step that applies a reload, whether it succeeds or fails, leaves
\* the watermark, the pending retry and the handling history as they were, and
\* every id query asks for the ids after the watermark of that moment: a row
\* that arrived before the reload and was not yet polled is still ahead of the
\* watermark after it.
C37_ReloadKeepsWatermark ==
    [][/\ (pc = "top" /\ running /\ reload_requested /\ pc' # pc)
          => /\ last_id' = last_id
             /\ failed_after' = failed_after
             /\ handled' = handled
             /\ \A id \in DOMAIN notes : id > last_id => (id \in DOMAIN notes' /\ id > last_id')
       /\ (pc = "poll" /\ pc' # pc) => after_id' = last_id]_vars

\* C37 witness: a reload has just been applied in a later tick while a row that
\* arrived during the previous pass was waiting ahead of the watermark, unhandled.
C37_Witness ==
    /\ pc = "jobs"
    /\ advances > 0
    /\ DOMAIN computed # {}
    /\ \E id \in DOMAIN notes : id > last_id /\ handled[id] = 0 /\ id \notin existing

\* C38: when the job step of a tick ends, every job in the schedule table has a
\* next run strictly later than the time the step sampled.
C38_NoJobStaysDue ==
    [][(pc = "jobs" /\ pc' = "poll")
          => \A n \in DOMAIN next_runs' : next_runs'[n] > clock]_vars

\* C39: a detection that matches the new-species check is dispatched on the
\* new-species track whether or not its species is on cooldown; a detection
\* whose species is on cooldown is not dispatched on the realtime track; and a
\* species without an entry in the cooldown file is not on cooldown.
C39_CooldownOnlyOnRealtime ==
    (last_call.id # 0 /\ ~last_call.raised)
       => /\ last_call.is_new
               => /\ last_call.track = "new_species"
                  /\ last_call.new_species_alerts = 1
                  /\ last_call.realtime_alerts = 0
          /\ last_call.on_cooldown => last_call.realtime_alerts = 0
          /\ last_call.scientific_name \notin DOMAIN last_call.file_before
               => ~last_call.on_cooldown

\* C39 witness: a detection matched the new-species check while its species was
\* on cooldown, and was dispatched and sent.
C39_Witness ==
    /\ last_call.id # 0
    /\ last_call.is_new
    /\ last_call.on_cooldown
    /\ last_call.track = "new_species"
    /\ last_call.notification_sent

====
